---- MODULE Spec2Model ----
(***************************************************************************)
(* Quality scoring pipeline: the decision gate (layer 9) with its report,  *)
(* the semantic validation layer (layer 4.3), the run of the shared engine *)
(* around them, and the CSV/JSON import adapter.                           *)
(*                                                                         *)
(* Numbers: dqs_base is in whole DQS points (0..100); anomaly_score is in  *)
(* hundredths (0..100 stands for 0.00..1.00), so the literals 0.9, 0.8 and *)
(* 0.7 of the source read 90, 80 and 70 here.                              *)
(***************************************************************************)
EXTENDS Integers, Sequences, FiniteSets, TLC

VARIABLES
    decisions,        \* DecisionGateLayer.decisions
    batch_decision,   \* DecisionGateLayer.batch_decision
    gate_call,        \* arguments of the most recent decide call (None before any)
    gate_result,      \* LayerResult returned by the most recent decide call
    gate_repeat,      \* history: the most recent decide call repeated the arguments
                      \* of the call before it
    validation_results,  \* SemanticValidationLayer.validation_results
    rejected_indices,    \* SemanticValidationLayer.rejected_indices
    flagged_indices,     \* SemanticValidationLayer.flagged_indices
    sem_call,         \* arguments of the most recent validate call
    sem_result,       \* LayerResult returned by the most recent validate call
    act_in,           \* arguments of one _determine_action call
    act_out,          \* what that call returned (None before the call)
    engine,           \* app.py's global engine (None until get_engine creates it)
    layer_results,    \* engine.layer_results: stage id -> the stage's latest result
    pc,               \* where each caller of the engine stands
    run,              \* the locals of each caller's run: batch, next stage, trace
    pipeline_result,  \* the PipelineResult each caller's run returned
    layer_details,    \* what each caller read from eng.layer_results afterwards
    report,           \* what generate_decision_report returned (None before the call)
    csv_in,           \* the import handed to one of the adapters
    csv_out,          \* the metadata the adapter returned (None before the call)
    streaming_active, \* app.py's global streaming_active
    workers,          \* where each streaming_worker thread stands
    stream_status,    \* the stream_status the last handler emitted
    logs,             \* LiveLogStorage.logs
    log_file,         \* the list the log file holds
    txn_result,       \* what process_single_transaction gave the worker
    engine_lock,      \* the thread that holds _engine_lock (0: nobody)
    getters,          \* the threads inside get_engine: position, argument, return
    constructed,      \* how many times DQSEngine was constructed
    sim_in,           \* the amount the generator drew
    sim_out           \* the simulated settlement block and what BR002 says of it

gateVars == <<decisions, batch_decision, gate_call, gate_result, gate_repeat>>
semVars == <<validation_results, rejected_indices, flagged_indices, sem_call, sem_result>>
actVars == <<act_in, act_out>>
engVars == <<engine, layer_results, pc, run, pipeline_result, layer_details>>
repVars == <<report>>
csvVars == <<csv_in, csv_out>>
strVars == <<streaming_active, workers, stream_status>>
logVars == <<logs, log_file>>
txnVars == <<txn_result>>
lockVars == <<engine_lock, getters, constructed>>
simVars == <<sim_in, sim_out>>
appVars == <<strVars, logVars, txnVars, lockVars, simVars>>
vars == <<gateVars, semVars, actVars, engVars, repVars, csvVars, appVars>>

\* Optional values are sequences: <<>> is Python's None, <<v>> holds v.
NoneVal == <<>>
Some(v) == <<v>>
IsNone(o) == Len(o) = 0
Get(o) == o[1]

\* ------------------------------------------------------------------ bounds
MaxBatch == 2       \* longest batch handed to decide
MaxFlags == 4       \* longest anomaly_flags list
MaxRows == 2        \* most rows in a DataFrame handed to validate
MaxEscalated == 11  \* most escalated records in a batch a report is made of
MaxReviews == 6     \* most records for review in such a batch

\* ------------------------------------------------------------------ config
\* The two thresholds are imported from config.py. The critical one is the 50
\* the specification quotes; the borderline one lies above it (the cascade
\* tries it later, on records the critical rule let through).
DQS_CRITICAL_THRESHOLD == 50
DQS_BORDERLINE_THRESHOLD == 70

\* anomaly_score of a payload whose anomaly score was never set (None)
NoScore == 0 - 1

Actions == {"SAFE_TO_USE", "REVIEW_REQUIRED", "ESCALATE", "NO_ACTION"}
Bands == {"LOW", "MEDIUM", "HIGH"}

\* ------------------------------------------------------------------ helpers
\* seq[:n]
Take(s, n) == SubSeq(s, 1, IF Len(s) < n THEN Len(s) ELSE n)

Range(s) == {s[i] : i \in 1..Len(s)}

\* mutant: the escalate count filters on requires_human_review
CountAction_Mut(ds, a) ==
    Cardinality({i \in 1..Len(ds) :
                    IF a = "ESCALATE" THEN ds[i].requires_human_review
                                      ELSE ds[i].action = a})

\* sum(1 for d in ds if d.action == a)
CountAction(ds, a) == Cardinality({i \in 1..Len(ds) : ds[i].action = a})

\* a formatted message: its fixed text and the value formatted into it
Msg(text, arg) == <<text, arg>>
Text(text) == <<text>>

AllFlags == <<Text("flag_a"), Text("flag_b"), Text("flag_c"), Text("flag_d"),
              Text("flag_e"), Text("flag_f")>>
FlagSeqs == {SubSeq(AllFlags, 1, k) : k \in 0..MaxFlags}

\* ------------------------------------------------------------------ _determine_action
Returned(action, reason, factors, escalation) ==
    [raised |-> FALSE, action |-> action, reason |-> reason,
     factors |-> factors, escalation |-> escalation]

\* r.anomaly_score is None: comparing it with a float raises TypeError
Raised == [raised |-> TRUE]

DefaultFactors(r, confidence_band) ==
    <<Msg("DQS", r.dqs_base), Msg("Confidence", confidence_band)>>
        \o (IF ~r.is_anomaly THEN <<Text("No anomalies")>> ELSE <<>>)

BorderlineFactors(r) ==
    <<Msg("DQS below borderline", r.dqs_base)>>
        \o (IF r.is_anomaly THEN <<Msg("Anomaly score", r.anomaly_score)>> ELSE <<>>)

\* the guards of the cascade, in the order they are tried

\* mutant: the validity rule is tried after the critical-DQS rule
IsInvalid_Mut(r) == ~r.is_valid /\ r.dqs_base >= DQS_CRITICAL_THRESHOLD

IsInvalid(r) == ~r.is_valid

\* mutant: the threshold is missed by one point
IsCriticalDqs_Mut(r) == r.dqs_base < DQS_CRITICAL_THRESHOLD - 1

IsCriticalDqs(r) == r.dqs_base < DQS_CRITICAL_THRESHOLD

\* evaluating r.anomaly_score > 0.9 on a payload whose score is None
ScoreComparisonRaises(r) == r.anomaly_score = NoScore

\* mutant: the score only counts for records flagged as anomalies
IsCriticalAnomaly_Mut(r) == r.is_anomaly /\ r.anomaly_score > 90

IsCriticalAnomaly(r) == r.anomaly_score > 90

IsMultiAnomaly(r) ==
    r.is_anomaly /\ Len(r.anomaly_flags) >= 3 /\ r.anomaly_score > 70

IsBorderlineDqs(r) == r.dqs_base < DQS_BORDERLINE_THRESHOLD

IsUncertainAnomaly(r, confidence_band) == r.is_anomaly /\ confidence_band # "HIGH"

IsLowConfidence(confidence_band) == confidence_band = "LOW"

\* mutant: >= for >
IsHighAnomaly_Mut(r) == r.anomaly_score >= 80

IsHighAnomaly(r) == r.anomaly_score > 80

DetermineAction(r, confidence_band, confidence_score) ==
    IF IsInvalid(r) THEN
        Returned("NO_ACTION", Text("Record failed structural validation"),
                 <<Text("Rejected in Layer 4.1")>>,
                 "Structural integrity failure")
    ELSE IF IsCriticalDqs(r) THEN
        Returned("ESCALATE", Msg("Critical DQS score", r.dqs_base),
                 <<Text("DQS below critical threshold")>>,
                 "Quality score indicates critical data issues")
    ELSE IF ScoreComparisonRaises(r) THEN
        Raised
    ELSE IF IsCriticalAnomaly(r) THEN
        \* The return of "RULE 3: Semantic violations -> ESCALATE" is written
        \* inside this branch, after this return, so it is never executed and
        \* r.semantic_violations is never read by the cascade.
        Returned("ESCALATE", Msg("Critical anomaly detected", r.anomaly_score),
                 IF Len(r.anomaly_flags) > 0
                     THEN Take(r.anomaly_flags, 3)
                     ELSE <<Text("Extreme anomaly score")>>,
                 "Very high anomaly score indicates potential fraud or critical data issue")
    ELSE IF IsMultiAnomaly(r) THEN
        Returned("ESCALATE",
                 Msg("Multiple anomaly flags", <<Len(r.anomaly_flags), r.anomaly_score>>),
                 Take(r.anomaly_flags, 4),
                 "Multiple anomaly indicators suggest critical review needed")
    ELSE IF IsBorderlineDqs(r) THEN
        Returned("REVIEW_REQUIRED", Msg("Borderline quality score", r.dqs_base),
                 BorderlineFactors(r), "")
    ELSE IF IsUncertainAnomaly(r, confidence_band) THEN
        Returned("REVIEW_REQUIRED", Text("Anomaly detected with uncertain confidence"),
                 <<Msg("Anomaly detected", Take(r.anomaly_flags, 2)),
                   Msg("Confidence", confidence_band)>>, "")
    ELSE IF IsLowConfidence(confidence_band) THEN
        Returned("REVIEW_REQUIRED", Text("Low confidence in quality assessment"),
                 <<Msg("Low confidence score", confidence_score)>>, "")
    ELSE IF IsHighAnomaly(r) THEN
        Returned("REVIEW_REQUIRED", Text("Very high anomaly score requires review"),
                 <<Msg("Very high anomaly", r.anomaly_score)>>, "")
    ELSE
        Returned("SAFE_TO_USE", Text("Record passes all quality checks"),
                 DefaultFactors(r, confidence_band), "")

\* ------------------------------------------------------------------ decide
\* confidence_lookup.get(record_id): the dict keeps the last assessment of an id
LookupConfidence(cas, record_id) ==
    LET hits == {i \in 1..Len(cas) : cas[i].record_id = record_id}
    IN IF hits = {} THEN NoneVal
       ELSE Some(cas[CHOOSE i \in hits : \A j \in hits : j <= i])

\* mutant: a record without an assessment counts as HIGH
ConfidenceBandOf_Mut(ca) == IF IsNone(ca) THEN "HIGH" ELSE Get(ca).confidence_band

ConfidenceBandOf(ca) == IF IsNone(ca) THEN "MEDIUM" ELSE Get(ca).confidence_band

ConfidenceScoreOf(ca) == IF IsNone(ca) THEN 50 ELSE Get(ca).confidence_score

\* _determine_action as decide calls it for payload r
ActionFor(r, cas) ==
    LET ca == LookupConfidence(cas, r.record_id)
    IN DetermineAction(r, ConfidenceBandOf(ca), ConfidenceScoreOf(ca))

LayerVotes(r, confidence_band) ==
    [L4_1_structural |-> IF r.is_valid THEN "PASS" ELSE "FAIL",
     L4_2_dqs |-> IF r.dqs_base >= DQS_BORDERLINE_THRESHOLD THEN "PASS" ELSE "FAIL",
     L4_3_semantic |-> IF Len(r.semantic_violations) = 0 THEN "PASS" ELSE "FAIL",
     L4_4_anomaly |-> IF r.is_anomaly THEN "FLAG" ELSE "PASS",
     L8_confidence |-> confidence_band]

RequiresHumanReview_Mut(action) == action = "ESCALATE"
RequiresHumanReview(action) == action \in {"REVIEW_REQUIRED", "ESCALATE"}

\* the Decision built for payload r (decision_timestamp is left out: no claim
\* reads the clock)
MakeDecision(r, cas) ==
    LET ca == LookupConfidence(cas, r.record_id)
        band == ConfidenceBandOf(ca)
        res == DetermineAction(r, band, ConfidenceScoreOf(ca))
    IN [record_id |-> r.record_id,
        action |-> res.action,
        dqs_final |-> r.dqs_base,
        confidence_band |-> band,
        primary_reason |-> res.reason,
        supporting_factors |-> res.factors,
        layer_votes |-> LayerVotes(r, band),
        requires_human_review |-> RequiresHumanReview(res.action),
        escalation_reason |-> res.escalation]

\* mutant: the list of the call before is kept
ResetDecisions_Mut(old) == old

\* self.decisions = [] at the start of a non-empty batch
ResetDecisions(old) == <<>>

\* index of the first payload on which the loop raises, 0 if it never does
FirstRaise(rps, cas) ==
    LET bad == {i \in 1..Len(rps) : ActionFor(rps[i], cas).raised}
    IN IF bad = {} THEN 0 ELSE CHOOSE i \in bad : \A j \in bad : i <= j

\* self.decisions after the loop has handled the first n payloads
DecisionsUpTo(rps, cas, n) == [i \in 1..n |-> MakeDecision(rps[i], cas)]

\* the loop appends one Decision per payload to self.decisions
AppendDecisions(old, rps, cas, n) == ResetDecisions(old) \o DecisionsUpTo(rps, cas, n)

\* safe_count / n_records * 100, kept exact as a fraction
QualityRate(safe_count, n_records) ==
    IF n_records > 0 THEN [num |-> safe_count * 100, den |-> n_records]
                     ELSE [num |-> 0, den |-> 1]

\* round(q, digits) for a fraction q >= 0, in units of 1/scale (ties to even)
RoundTo(q, scale) ==
    LET twice == (2 * scale * q.num) \div q.den
        exact == (2 * scale * q.num) % q.den = 0
        down == twice \div 2
    IN IF twice % 2 = 0 THEN down
       ELSE IF exact /\ down % 2 = 0 THEN down
       ELSE down + 1

\* round(quality_rate, 1), in tenths of a percent
RoundTenths(q) == RoundTo(q, 10)

\* the BatchDecision of a loop that ended normally (batch_id and timestamp,
\* a random uuid and the clock, are left out)
MakeBatchDecision(ds, n_records) ==
    LET safe_count == CountAction(ds, "SAFE_TO_USE")
        review_count == CountAction(ds, "REVIEW_REQUIRED")
        escalate_count == CountAction(ds, "ESCALATE")
        no_action_count == CountAction(ds, "NO_ACTION")
    IN [total_records |-> n_records,
        safe_count |-> safe_count,
        review_count |-> review_count,
        escalate_count |-> escalate_count,
        no_action_count |-> no_action_count,
        overall_quality_rate |-> QualityRate(safe_count, n_records),
        requires_human_review |-> (review_count > 0 \/ escalate_count > 0),
        decisions |-> ds]

CreateResult(status, checks_performed, checks_passed, issues, can_continue, details) ==
    [layer_id |-> "9", layer_name |-> "decision_gate",
     status |-> status,
     checks_performed |-> checks_performed,
     checks_passed |-> checks_passed,
     issues |-> issues,
     warnings |-> <<>>,
     details |-> details,
     can_continue |-> can_continue]

EmptyBatchResult ==
    CreateResult("PASSED", 1, 1, <<>>, TRUE, Some("No records to decide"))

DecidedStatus_Mut(bd) == IF bd.requires_human_review THEN "DEGRADED" ELSE "PASSED"
DecidedStatus(bd) == IF bd.escalate_count > 0 THEN "DEGRADED" ELSE "PASSED"

DecidedResult(bd) ==
    CreateResult(DecidedStatus(bd), 2, 2, <<>>, TRUE,
                 Some([safe_count |-> bd.safe_count,
                       review_count |-> bd.review_count,
                       escalate_count |-> bd.escalate_count,
                       no_action_count |-> bd.no_action_count,
                       quality_rate |-> RoundTenths(bd.overall_quality_rate),
                       requires_human_review |-> bd.requires_human_review]))

\* mutant: the failed stage lets the pipeline go on
ErrorResult_Mut ==
    CreateResult("FAILED", 1, 0,
                 <<[type |-> "DECISION_ERROR", message |-> "Unexpected error"]>>,
                 TRUE, NoneVal)

\* the except branch: one DECISION_ERROR issue is appended to the empty list
ErrorResult ==
    CreateResult("FAILED", 1, 0,
                 <<[type |-> "DECISION_ERROR", message |-> "Unexpected error"]>>,
                 FALSE, NoneVal)

\* the end of a decide call whose loop ran through: the batch summary is
\* stored and reported
DecideOutcome(ds, bd) ==
    /\ decisions' = ds
    /\ batch_decision' = Some(bd)
    /\ gate_result' = Some(DecidedResult(bd))

Decide(record_payloads, confidence_assessments) ==
    LET k == FirstRaise(record_payloads, confidence_assessments)
        n == Len(record_payloads)
        args == [record_payloads |-> record_payloads,
                 confidence_assessments |-> confidence_assessments]
    IN /\ gate_repeat' = (gate_call = Some(args))
       /\ gate_call' = Some(args)
       /\ IF n = 0 THEN
              /\ gate_result' = Some(EmptyBatchResult)
              /\ UNCHANGED <<decisions, batch_decision>>
          ELSE IF k > 0 THEN
              /\ decisions' = AppendDecisions(decisions, record_payloads,
                                              confidence_assessments, k - 1)
              /\ gate_result' = Some(ErrorResult)
              /\ UNCHANGED batch_decision
          ELSE
              \E ds \in {AppendDecisions(decisions, record_payloads,
                                         confidence_assessments, n)} :
                  \E bd \in {MakeBatchDecision(ds, n)} : DecideOutcome(ds, bd)

\* ------------------------------------------------------------------ report
\* how many escalated records and records for review the report lists
EscalatedListed == 10
ReviewsListed == 5

\* the line the report has for a decision: record id and primary reason
ReportLine(d) == <<d.record_id, d.primary_reason>>

\* escalated[:10] and reviews[:5]
ListedEscalated_Mut(escalated) == Take(escalated, ReviewsListed)
ListedEscalated(escalated) == Take(escalated, EscalatedListed)
ListedReviews(reviews) == Take(reviews, ReviewsListed)

\* generate_decision_report: the summary block of the batch decision, then
\* the escalated records (when there are any) and the records for review
\* (when there are any, under a header with their number); without a batch
\* decision the report is one sentence
GenerateDecisionReport(ds, bd_opt) ==
    IF IsNone(bd_opt)
    THEN [text |-> "No decisions made.", summary |-> NoneVal,
          escalated |-> <<>>, reviews_header |-> NoneVal, reviews |-> <<>>]
    ELSE LET bd == Get(bd_opt)
             IsEscalated(d) == d.action = "ESCALATE"
             IsReview(d) == d.action = "REVIEW_REQUIRED"
             escalated == SelectSeq(ds, IsEscalated)
             reviews == SelectSeq(ds, IsReview)
             listed_escalated == ListedEscalated(escalated)
             listed_reviews == ListedReviews(reviews)
         IN [text |-> "FINAL DECISION REPORT",
             summary |-> Some([total_records |-> bd.total_records,
                               safe_count |-> bd.safe_count,
                               review_count |-> bd.review_count,
                               escalate_count |-> bd.escalate_count,
                               no_action_count |-> bd.no_action_count,
                               quality_rate |-> RoundTenths(bd.overall_quality_rate),
                               human_review |-> IF bd.requires_human_review
                                                THEN "YES" ELSE "NO"]),
             escalated |-> [i \in 1..Len(listed_escalated) |->
                               ReportLine(listed_escalated[i])],
             reviews_header |-> IF Len(reviews) > 0 THEN Some(Len(reviews)) ELSE NoneVal,
             reviews |-> [i \in 1..Len(listed_reviews) |-> ReportLine(listed_reviews[i])]]

\* ------------------------------------------------------------------ csv adapter
\* REQUIRED_FIELDS, section by section
REQUIRED_FIELDS ==
    <<<<"transaction", "transaction_id">>, <<"transaction", "amount">>,
      <<"transaction", "currency">>, <<"transaction", "timestamp">>,
      <<"card", "network">>, <<"card", "card_type">>,
      <<"merchant", "merchant_id">>, <<"merchant", "merchant_category_code">>,
      <<"merchant", "country">>,
      <<"customer", "customer_id">>,
      <<"fraud", "risk_score">>>>

\* FIELD_MAPPINGS: the column names each schema field is looked for under, in
\* the order they are tried
FIELD_MAPPINGS ==
    <<[field |-> "transaction_id",
       names |-> <<"transaction_id", "txn_id", "id", "order_id", "ref_id", "reference">>],
      [field |-> "amount",
       names |-> <<"amount", "txn_amount", "transaction_amount", "value", "total", "price">>],
      [field |-> "currency", names |-> <<"currency", "currency_code", "ccy">>],
      [field |-> "timestamp",
       names |-> <<"timestamp", "date", "datetime", "txn_date", "transaction_date",
                   "created_at">>],
      [field |-> "status", names |-> <<"status", "txn_status", "transaction_status", "state">>],
      [field |-> "type", names |-> <<"type", "txn_type", "transaction_type">>],
      [field |-> "network", names |-> <<"network", "card_network", "scheme">>],
      [field |-> "card_type", names |-> <<"card_type", "type", "funding_type">>],
      [field |-> "bin", names |-> <<"bin", "card_bin">>],
      [field |-> "last4", names |-> <<"last4", "last_4", "card_last4">>],
      [field |-> "merchant_id", names |-> <<"merchant_id", "mid", "store_id", "seller_id">>],
      [field |-> "terminal_id", names |-> <<"terminal_id", "tid", "pos_id">>],
      [field |-> "merchant_name",
       names |-> <<"merchant_name", "store_name", "seller_name", "name">>],
      [field |-> "merchant_category_code",
       names |-> <<"mcc", "merchant_category_code", "category_code">>],
      [field |-> "country", names |-> <<"country", "merchant_country", "location_country">>],
      [field |-> "customer_id", names |-> <<"customer_id", "cust_id", "user_id", "buyer_id">>],
      [field |-> "email", names |-> <<"email", "customer_email", "user_email">>],
      [field |-> "phone", names |-> <<"phone", "mobile", "customer_phone">>],
      [field |-> "ip_address", names |-> <<"ip_address", "ip", "client_ip">>],
      [field |-> "risk_score", names |-> <<"risk_score", "fraud_score", "risk">>],
      [field |-> "risk_level", names |-> <<"risk_level", "fraud_level">>]>>

\* h.lower().strip() on the column names imports carry
NormalizeHeader(h) ==
    CASE h = " Amount " -> "amount"
      [] h = "MCC" -> "mcc"
      [] h = "Risk" -> "risk"
      [] OTHER -> h

\* detect_csv_columns: each schema field with a column under one of its
\* names gets the column of the first such name
DetectCsvColumns(headers) ==
    LET headers_lower == {NormalizeHeader(h) : h \in headers}
        Column(name) == CHOOSE h \in headers : NormalizeHeader(h) = name
        Found(m) == \E k \in 1..Len(m.names) : m.names[k] \in headers_lower
        First(m) == CHOOSE k \in 1..Len(m.names) :
                        /\ m.names[k] \in headers_lower
                        /\ \A j \in 1..(k - 1) : m.names[j] \notin headers_lower
        mapped == {i \in 1..Len(FIELD_MAPPINGS) : Found(FIELD_MAPPINGS[i])}
    IN [field \in {FIELD_MAPPINGS[i].field : i \in mapped} |->
           LET m == CHOOSE x \in Range(FIELD_MAPPINGS) : x.field = field
           IN Column(m.names[First(m)])]

\* calculate_schema_compliance: the score as the fraction found / total x 100
\* and the missing fields as (section, field), in the order of REQUIRED_FIELDS
CalculateSchemaCompliance_Mut(column_mapping) ==
    LET IsMissing(rf) == rf[2] \notin DOMAIN column_mapping
        missing_fields == SelectSeq(REQUIRED_FIELDS, IsMissing)
        total_required == Len(REQUIRED_FIELDS)
        found_required == Cardinality(DOMAIN column_mapping)
    IN [compliance_score |-> [num |-> found_required * 100, den |-> total_required],
        missing_fields |-> missing_fields]
CalculateSchemaCompliance(column_mapping) ==
    LET IsMissing(rf) == rf[2] \notin DOMAIN column_mapping
        missing_fields == SelectSeq(REQUIRED_FIELDS, IsMissing)
        total_required == Len(REQUIRED_FIELDS)
        found_required == total_required - Len(missing_fields)
    IN [compliance_score |-> IF total_required > 0
                             THEN [num |-> found_required * 100, den |-> total_required]
                             ELSE [num |-> 0, den |-> 1],
        missing_fields |-> missing_fields]

\* compliance_score >= 80, compliance_score < 80, compliance_score < 50
StandardFormatThreshold == 80
CriticalComplianceThreshold == 50
AtLeast(score, percent) == score.num >= percent * score.den

\* max(0, (100 - compliance_score) / 2)
QualityPenalty(score) ==
    IF AtLeast(score, 100) THEN [num |-> 0, den |-> 1]
    ELSE [num |-> 100 * score.den - score.num, den |-> 2 * score.den]

\* the metadata of a converted import
ImportMetadata(source, headers, n_rows, warnings) ==
    LET column_mapping == DetectCsvColumns(headers)
        compliance == CalculateSchemaCompliance(column_mapping)
        score == compliance.compliance_score
    IN [source |-> source,
        compliance_score |-> score,
        missing_fields |-> compliance.missing_fields,
        mapped_fields |-> DOMAIN column_mapping,
        total_rows |-> n_rows,
        is_standard_format |-> Some(AtLeast(score, StandardFormatThreshold)),
        quality_penalty |-> Some(QualityPenalty(score)),
        warnings |-> SelectSeq(warnings, LAMBDA w : ~AtLeast(score, w[2]))]

\* adapt_csv_to_visa: the metadata (the converted rows depend on the mapping
\* and the rows only and are not kept here)
AdaptCsvToVisa(headers, n_rows) ==
    ImportMetadata("csv_import", headers, n_rows,
                   <<<<"CSV schema compliance", StandardFormatThreshold>>,
                     <<"Critical: Less than 50% schema compliance",
                       CriticalComplianceThreshold>>>>)

\* adapt_flat_json_to_visa: no data, records already nested, or flat records
\* mapped by the keys of the first one
AdaptFlatJsonToVisa(kind, headers, n_rows) ==
    IF n_rows = 0
    THEN [source |-> "json", compliance_score |-> [num |-> 0, den |-> 1],
          missing_fields |-> <<>>, mapped_fields |-> {}, total_rows |-> 0,
          is_standard_format |-> NoneVal, quality_penalty |-> NoneVal,
          warnings |-> <<<<"No data provided", 0>>>>]
    ELSE IF kind = "nested"
    THEN [source |-> "json", compliance_score |-> [num |-> 100, den |-> 1],
          missing_fields |-> <<>>, mapped_fields |-> {}, total_rows |-> n_rows,
          is_standard_format |-> Some(TRUE), quality_penalty |-> NoneVal,
          warnings |-> <<>>]
    ELSE ImportMetadata("json", headers, n_rows,
                        <<<<"JSON schema compliance", StandardFormatThreshold>>>>)

\* ------------------------------------------------------------------ semantic rules
\* A cell of a row that a rule compares with a number: a number, NaN, a
\* string, or no such column at all.
Num(v) == [t |-> "num", v |-> v]
NaN == [t |-> "nan", v |-> 0]
Str == [t |-> "str", v |-> 0]
Missing == [t |-> "missing", v |-> 0]

\* Series.get(key, default)
GetOr(cell, default) == IF cell.t = "missing" THEN Num(default) ELSE cell

\* what evaluating a rule gives: a RuleResult (passed or not, with its
\* message) or an exception
Passed(message) == [outcome |-> "pass", message |-> message]
Failed(message) == [outcome |-> "fail", message |-> message]
RuleRaises == [outcome |-> "raise", message |-> Text("Rule evaluation error")]

\* str.lower() / str.upper() on the strings rows carry
Lower(str) ==
    CASE str = "APPROVED" -> "approved"
      [] str = "Approved" -> "approved"
      [] OTHER -> str

Upper(str) ==
    CASE str = "in" -> "IN"
      [] str = "us" -> "US"
      [] OTHER -> str

\* str.strip()
Strip(str) == IF str = " " THEN "" ELSE str

\* BR001
CheckPositiveAmount(row, feat) ==
    LET amount == GetOr(feat.txn_amount, 0)
    IN CASE amount.t = "str" -> RuleRaises
         [] amount.t = "nan" -> Failed(Msg("Non-positive amount", amount))
         [] OTHER -> IF amount.v > 0 THEN Passed(Text(""))
                     ELSE Failed(Msg("Non-positive amount", amount))

Abs(x) == IF x < 0 THEN 0 - x ELSE x

\* BR002: row.settlement holds gross, interchange fee, gateway fee and net,
\* or is None when one of them is NaN
CheckSettlementMath(row, feat) ==
    IF IsNone(row.settlement) THEN Passed(Text("Settlement data not present"))
    ELSE LET st == Get(row.settlement)
             expected == st.gross - st.int_fee - st.gw_fee
         IN IF Abs(st.net - expected) < 1 THEN Passed(Text(""))
            ELSE Failed(Msg("Net != Expected", <<st.net, expected>>))

\* BR003: row.dates holds the clearing and the settlement day, or is None
CheckSettlementSequence(row, feat) ==
    IF IsNone(row.dates) THEN Passed(Text(""))
    ELSE LET d == Get(row.dates)
         IN IF d.settlement >= d.clearing THEN Passed(Text(""))
            ELSE Failed(Msg("Settlement before clearing", <<d.settlement, d.clearing>>))

\* BR004 (an authorization code of "nan" is the NaN cell)
CheckAuthCodePresent(row, feat) ==
    IF Lower(row.txn_status) # "approved" THEN Passed(Text(""))
    ELSE IF row.txn_authorization_code # "nan" /\ Strip(row.txn_authorization_code) # ""
         THEN Passed(Text(""))
         ELSE Failed(Text("Approved transaction without auth code"))

\* BR005 (a string cell compared with 0 raises TypeError; NaN >= 0 is False)
CheckCardNotExpired(row, feat) ==
    LET months_remaining == GetOr(feat.card_expiry_months_remaining, 12)
    IN CASE months_remaining.t = "str" -> RuleRaises
         [] months_remaining.t = "nan" -> Failed(Msg("Card expired months ago", months_remaining))
         [] OTHER -> IF months_remaining.v >= 0 THEN Passed(Text(""))
                     ELSE Failed(Msg("Card expired months ago", months_remaining))

\* mcc_ranges.get(int(mcc_first2), (50, 100000))
MccRange(mcc_first2) ==
    CASE mcc_first2 = 58 -> <<100, 10000>>
      [] mcc_first2 = 54 -> <<50, 15000>>
      [] mcc_first2 = 55 -> <<100, 10000>>
      [] mcc_first2 = 53 -> <<200, 50000>>
      [] mcc_first2 = 41 -> <<50, 5000>>
      [] mcc_first2 = 70 -> <<1000, 100000>>
      [] mcc_first2 = 56 -> <<200, 30000>>
      [] OTHER -> <<50, 100000>>

\* BR006
CheckAmountCategoryRationality(row, feat) ==
    LET amount == GetOr(feat.txn_amount, 0)
        range == MccRange(feat.merchant_mcc_first2)
    IN CASE amount.t = "str" -> RuleRaises
         [] amount.t = "nan" -> Failed(Msg("Amount unusual for MCC", feat.merchant_mcc_first2))
         [] OTHER -> IF range[1] <= amount.v /\ amount.v <= range[2] THEN Passed(Text(""))
                     ELSE Failed(Msg("Amount unusual for MCC", feat.merchant_mcc_first2))

\* BR007
CheckRiskConsistency(row, feat) ==
    LET expected == IF feat.fraud_risk_score > 70 THEN 2
                    ELSE IF feat.fraud_risk_score > 40 THEN 1 ELSE 0
    IN IF feat.fraud_risk_level_encoded = expected THEN Passed(Text(""))
       ELSE Failed(Msg("Risk level inconsistent with score",
                       <<feat.fraud_risk_level_encoded, feat.fraud_risk_score>>))

\* BR008
CheckGeoConsistency(row, feat) ==
    IF feat.merchant_is_domestic = 1 /\ feat.customer_ip_is_domestic # 1
    THEN Failed(Text("Domestic merchant with foreign IP"))
    ELSE Passed(Text(""))

\* BR009 (NaN > 10000 is False)
Check3dsForHighValue(row, feat) ==
    LET amount == GetOr(feat.txn_amount, 0)
    IN CASE amount.t = "str" -> RuleRaises
         [] amount.t = "nan" -> Passed(Text(""))
         [] OTHER -> IF amount.v > 10000 /\ feat.auth_result_encoded # 0
                     THEN Failed(Msg("High value without 3DS authentication", amount.v))
                     ELSE Passed(Text(""))

\* BR010
CheckVelocityRiskCorrelation(row, feat) ==
    IF feat.fraud_velocity_passed = 0 /\ ~(feat.fraud_risk_score >= 40)
    THEN Failed(Msg("Failed velocity but low risk", feat.fraud_risk_score))
    ELSE Passed(Text(""))

\* BR011: settlement_fee_ratio in hundredths of a percent, so 0.05 reads 500
CheckFeeRatio(row, feat) ==
    IF feat.settlement_fee_ratio < 500 THEN Passed(Text(""))
    ELSE Failed(Msg("High fee ratio", feat.settlement_fee_ratio))

\* BR012
CheckAddressCountryMatch(row, feat) ==
    IF Upper(row.merchant_country) = "IN"
       /\ ~(Upper(row.billing_country) \in {"IN", ""}
            /\ Upper(row.shipping_country) \in {"IN", ""})
    THEN Failed(Text("Domestic merchant but foreign address"))
    ELSE Passed(Text(""))

\* _define_rules: the catalog, in order
Rules ==
    <<[rule_id |-> "BR001", severity |-> "critical"],
      [rule_id |-> "BR002", severity |-> "critical"],
      [rule_id |-> "BR003", severity |-> "critical"],
      [rule_id |-> "BR004", severity |-> "critical"],
      [rule_id |-> "BR005", severity |-> "critical"],
      [rule_id |-> "BR006", severity |-> "warning"],
      [rule_id |-> "BR007", severity |-> "warning"],
      [rule_id |-> "BR008", severity |-> "warning"],
      [rule_id |-> "BR009", severity |-> "warning"],
      [rule_id |-> "BR010", severity |-> "warning"],
      [rule_id |-> "BR011", severity |-> "warning"],
      [rule_id |-> "BR012", severity |-> "warning"]>>

\* rule["check"](row, feat_row)
RunCheck(rule_id, row, feat) ==
    CASE rule_id = "BR001" -> CheckPositiveAmount(row, feat)
      [] rule_id = "BR002" -> CheckSettlementMath(row, feat)
      [] rule_id = "BR003" -> CheckSettlementSequence(row, feat)
      [] rule_id = "BR004" -> CheckAuthCodePresent(row, feat)
      [] rule_id = "BR005" -> CheckCardNotExpired(row, feat)
      [] rule_id = "BR006" -> CheckAmountCategoryRationality(row, feat)
      [] rule_id = "BR007" -> CheckRiskConsistency(row, feat)
      [] rule_id = "BR008" -> CheckGeoConsistency(row, feat)
      [] rule_id = "BR009" -> Check3dsForHighValue(row, feat)
      [] rule_id = "BR010" -> CheckVelocityRiskCorrelation(row, feat)
      [] rule_id = "BR011" -> CheckFeeRatio(row, feat)
      [] rule_id = "BR012" -> CheckAddressCountryMatch(row, feat)

\* the RuleResult the rule loop keeps for one rule: the check's result under
\* the catalog's id and severity, or, when the check raised, a failed result
\* of severity warning
EvaluateRule_Mut(rule, row, feat) ==
    LET res == RunCheck(rule.rule_id, row, feat)
    IN [rule_id |-> rule.rule_id, passed |-> res.outcome = "pass",
        severity |-> rule.severity, message |-> res.message]
EvaluateRule(rule, row, feat) ==
    LET res == RunCheck(rule.rule_id, row, feat)
    IN IF res.outcome = "raise"
       THEN [rule_id |-> rule.rule_id, passed |-> FALSE, severity |-> "warning",
             message |-> res.message]
       ELSE [rule_id |-> rule.rule_id, passed |-> res.outcome = "pass",
             severity |-> rule.severity, message |-> res.message]

\* semantic_score as a fraction: rules_passed / total_rules * 100, or 100
SemanticScore_Mut(rules_passed, total_rules) ==
    IF total_rules > 0 THEN [num |-> rules_passed, den |-> total_rules]
    ELSE [num |-> 100, den |-> 1]
SemanticScore(rules_passed, total_rules) ==
    IF total_rules > 0 THEN [num |-> rules_passed * 100, den |-> total_rules]
    ELSE [num |-> 100, den |-> 1]

\* the SemanticValidation of one record
ValidateRecord(record_id, row, feat) ==
    LET results == [k \in 1..Len(Rules) |-> EvaluateRule(Rules[k], row, feat)]
        IsCritical(x) == ~x.passed /\ x.severity = "critical"
        IsWarning(x) == ~x.passed /\ x.severity # "critical"
        critical_violations == SelectSeq(results, IsCritical)
        rule_warnings == SelectSeq(results, IsWarning)
        rules_passed == Cardinality({k \in 1..Len(results) : results[k].passed})
        rules_failed == Cardinality({k \in 1..Len(results) : ~results[k].passed})
        total_rules == rules_passed + rules_failed
    IN [record_id |-> record_id,
        semantic_score |-> SemanticScore(rules_passed, total_rules),
        rules_passed |-> rules_passed,
        rules_failed |-> rules_failed,
        critical_violations |-> critical_violations,
        warnings |-> rule_warnings,
        passes_validation |-> Len(critical_violations) = 0]

\* ------------------------------------------------------------------ validate
\* valid_indices if given, else list(df.index); indices count from 0
ProcessIndices(df, valid_indices) ==
    IF IsNone(valid_indices) THEN [i \in 1..Len(df) |-> i - 1] ELSE Get(valid_indices)

\* the indices the loop does not skip (idx >= len(df): continue)
InRange(df, indices) ==
    LET Keep(idx) == idx < Len(df)
    IN SelectSeq(indices, Keep)

\* position in todo of the first index feat_df.iloc[idx] raises IndexError
\* on (feat_df has fewer rows than df), 0 if there is none
FirstBadIndex(todo, feat_df) ==
    LET bad == {j \in 1..Len(todo) : todo[j] >= Len(feat_df)}
    IN IF bad = {} THEN 0 ELSE CHOOSE j \in bad : \A k \in bad : j <= k

\* the SemanticValidation of the record at index idx; the record id is the
\* primary key column of the row
ValidateAt(df, feat_df, idx) ==
    ValidateRecord(df[idx + 1].txn_transaction_id, df[idx + 1], feat_df[idx + 1])

\* self.validation_results after the loop has handled the indices done
ResultsFor(df, feat_df, done) ==
    [j \in 1..Len(done) |-> ValidateAt(df, feat_df, done[j])]

\* the indices of done at the positions keep holds, in order
IndicesAt(done, keep) ==
    LET Keep(j) == keep[j]
        positions == SelectSeq([j \in 1..Len(done) |-> j], Keep)
    IN [k \in 1..Len(positions) |-> done[positions[k]]]

\* self.rejected_indices: the records with a critical violation
RejectedOf(done, results) ==
    IndicesAt(done, [j \in 1..Len(done) |-> ~results[j].passes_validation])

\* self.flagged_indices: the records that pass and carry a warning
FlaggedOf_Mut(done, results) ==
    IndicesAt(done, [j \in 1..Len(done) |-> Len(results[j].warnings) > 0])
FlaggedOf(done, results) ==
    IndicesAt(done, [j \in 1..Len(done) |->
                        results[j].passes_validation /\ Len(results[j].warnings) > 0])

RECURSIVE SumRulesPassed(_)
SumRulesPassed(results) ==
    IF Len(results) = 0 THEN 0
    ELSE results[1].rules_passed + SumRulesPassed(Tail(results))

\* np.mean(semantic_scores) if semantic_scores else 0; every score is
\* rules_passed * 100 over the same number of rules
MeanScore(results) ==
    IF Len(results) = 0 THEN [num |-> 0, den |-> 1]
    ELSE [num |-> SumRulesPassed(results) * 100, den |-> Len(Rules) * Len(results)]

\* rule_stats[rule_id]["pass_rate"], in tenths of a percent
RulePassRate(results, rule_id) ==
    LET Clean(r) == \A k \in 1..Len(r.critical_violations \o r.warnings) :
                        (r.critical_violations \o r.warnings)[k].rule_id # rule_id
        passed == Cardinality({j \in 1..Len(results) : Clean(results[j])})
    IN IF Len(results) > 0
       THEN RoundTo([num |-> passed * 100, den |-> Len(results)], 10)
       ELSE 1000

SemStatus_Mut(n_validated, n_rejected, n_flagged) ==
    IF n_rejected > 0 THEN "FAILED"
    ELSE IF n_flagged > 0 THEN "DEGRADED"
    ELSE "PASSED"
SemStatus(n_validated, n_rejected, n_flagged) ==
    IF n_rejected = n_validated /\ n_validated > 0 THEN "FAILED"
    ELSE IF n_rejected > 0 \/ n_flagged > 0 THEN "DEGRADED"
    ELSE "PASSED"

SemCanContinue_Mut(n_validated, n_rejected) == n_validated > 0
SemCanContinue(n_validated, n_rejected) ==
    ~(n_rejected = n_validated /\ n_validated > 0)

SemCreateResult(status, checks_performed, checks_passed, issues, can_continue, details) ==
    [layer_id |-> "4.3", layer_name |-> "semantic_validation",
     status |-> status,
     checks_performed |-> checks_performed,
     checks_passed |-> checks_passed,
     issues |-> issues,
     warnings |-> <<>>,
     details |-> details,
     can_continue |-> can_continue]

ValidatedResult(results, rejected, flagged) ==
    SemCreateResult(SemStatus(Len(results), Len(rejected), Len(flagged)), 1, 1, <<>>,
                    SemCanContinue(Len(results), Len(rejected)),
                    Some([records_validated |-> Len(results),
                          records_rejected |-> Len(rejected),
                          records_flagged |-> Len(flagged),
                          semantic_score_mean |-> RoundTo(MeanScore(results), 100),
                          rules_evaluated |-> Len(Rules),
                          rule_statistics |->
                              [k \in 1..Len(Rules) |->
                                  RulePassRate(results, Rules[k].rule_id)]]))

\* the except branch of validate: one SEMANTIC_FAILURE issue
SemErrorResult ==
    SemCreateResult("FAILED", 1, 0,
                    <<[type |-> "SEMANTIC_FAILURE", code |-> "UNEXPECTED_ERROR",
                       message |-> "Unexpected error", severity |-> "critical"]>>,
                    FALSE, NoneVal)

\* what validate leaves behind once the loop has stopped after the indices
\* done; failed: it stopped on an IndexError
ValidateOutcome(done, results, failed) ==
    LET rejected == RejectedOf(done, results)
        flagged == FlaggedOf(done, results)
    IN /\ validation_results' = results
       /\ rejected_indices' = rejected
       /\ flagged_indices' = flagged
       /\ sem_result' = IF failed THEN Some(SemErrorResult)
                        ELSE Some(ValidatedResult(results, rejected, flagged))

Validate(dataframe, features_df, valid_indices) ==
    LET todo == InRange(dataframe, ProcessIndices(dataframe, valid_indices))
        bad == FirstBadIndex(todo, features_df)
        done == IF bad = 0 THEN todo ELSE SubSeq(todo, 1, bad - 1)
    IN /\ sem_call' = Some([dataframe |-> dataframe, features_df |-> features_df,
                            valid_indices |-> valid_indices])
       /\ \E results \in {ResultsFor(dataframe, features_df, done)} :
              ValidateOutcome(done, results, bad # 0)

\* ------------------------------------------------------------------ inputs
\* dqs_base on both sides of the two thresholds
DqsValues ==
    {0, DQS_CRITICAL_THRESHOLD - 1, DQS_CRITICAL_THRESHOLD,
     DQS_BORDERLINE_THRESHOLD - 1, DQS_BORDERLINE_THRESHOLD, 100}

\* anomaly_score on both sides of 0.7, 0.8 and 0.9, and a score never set
ScoreValues == {NoScore, 0, 70, 71, 80, 81, 90, 91, 100}

\* messages of failed business rules as the earlier stages hand them on
ViolationSeqs ==
    {<<>>,
     <<Msg("Non-positive amount", Num(0))>>,
     <<Text("Domestic merchant with foreign IP"), Msg("Non-positive amount", Num(0))>>}

Payloads ==
    [record_id : {1}, is_valid : BOOLEAN, dqs_base : DqsValues,
     semantic_violations : ViolationSeqs, is_anomaly : BOOLEAN,
     anomaly_score : ScoreValues, anomaly_flags : FlagSeqs]

Assessment(record_id, band, score) ==
    [record_id |-> record_id, confidence_band |-> band, confidence_score |-> score]

\* a clean record: valid, DQS 100, no violations, no anomaly
CleanPayload ==
    [record_id |-> 1, is_valid |-> TRUE, dqs_base |-> 100,
     semantic_violations |-> <<>>, is_anomaly |-> FALSE,
     anomaly_score |-> 0, anomaly_flags |-> <<>>]

\* the payloads batches are made of: a clean one (SAFE_TO_USE, or
\* REVIEW_REQUIRED under LOW confidence), a structurally invalid one
\* (NO_ACTION), one with a critical DQS (ESCALATE), and one whose anomaly
\* score was never set (the cascade raises on it)
BatchPayloads ==
    {CleanPayload,
     [CleanPayload EXCEPT !.is_valid = FALSE, !.dqs_base = 0,
                          !.semantic_violations = <<Msg("Non-positive amount", Num(0))>>],
     [CleanPayload EXCEPT !.dqs_base = DQS_CRITICAL_THRESHOLD - 1,
                          !.is_anomaly = TRUE, !.anomaly_score = 95,
                          !.anomaly_flags = SubSeq(AllFlags, 1, 1)],
     [CleanPayload EXCEPT !.anomaly_score = NoScore]}

\* batches of at most MaxBatch payloads; record ids are the positions
BatchesOver(payloads) ==
    UNION {{[i \in 1..n |-> [f[i] EXCEPT !.record_id = i]] : f \in [1..n -> payloads]}
           : n \in 0..MaxBatch}

Batches == BatchesOver(BatchPayloads)

\* the batches and frames of the runs that look at the stages' error paths
StageBatches == BatchesOver({CleanPayload, [CleanPayload EXCEPT !.anomaly_score = NoScore]})

\* the assessments handed to decide: none at all, or HIGH for record 2 and
\* two for record 1, of which the dict keeps the last (LOW)
AssessmentLists ==
    {<<>>,
     <<Assessment(1, "HIGH", 90), Assessment(2, "HIGH", 90), Assessment(1, "LOW", 30)>>}

\* a transaction every rule passes: the row of the validated DataFrame and
\* the row of the features DataFrame
GoodRow ==
    [txn_transaction_id |-> 0,
     settlement |-> Some([gross |-> 1000, int_fee |-> 8, gw_fee |-> 3, net |-> 989]),
     dates |-> Some([clearing |-> 1, settlement |-> 2]),
     txn_status |-> "APPROVED",
     txn_authorization_code |-> "A1B2",
     merchant_country |-> "in",
     billing_country |-> "IN",
     shipping_country |-> ""]

GoodFeat ==
    [txn_amount |-> Num(1000),
     card_expiry_months_remaining |-> Missing,
     merchant_mcc_first2 |-> 58,
     fraud_risk_score |-> 10,
     fraud_risk_level_encoded |-> 0,
     merchant_is_domestic |-> 1,
     customer_ip_is_domestic |-> 1,
     auth_result_encoded |-> 0,
     fraud_velocity_passed |-> 1,
     settlement_fee_ratio |-> 110]

Record(row, feat) == [row |-> row, feat |-> feat]

\* the records frames are made of: a good one, one with amount 0 (BR001 and
\* BR006 fail), one with a foreign IP (BR008 fails), one whose net amount is
\* off by 5 (BR002 fails), one whose amount is a string (BR001, BR006 and
\* BR009 raise)
SemRecords ==
    {Record(GoodRow, GoodFeat),
     Record(GoodRow, [GoodFeat EXCEPT !.txn_amount = Num(0)]),
     Record(GoodRow, [GoodFeat EXCEPT !.customer_ip_is_domestic = 0]),
     Record([GoodRow EXCEPT !.settlement =
                 Some([gross |-> 1000, int_fee |-> 8, gw_fee |-> 3, net |-> 994])],
            GoodFeat),
     Record(GoodRow, [GoodFeat EXCEPT !.txn_amount = Str])}

\* frames of at most MaxRows records; the primary key is the position
FramesOver(records) ==
    UNION {{[i \in 1..n |-> [f[i] EXCEPT !.row.txn_transaction_id = i]]
            : f \in [1..n -> records]} : n \in 0..MaxRows}

RowsOf(frame) == [i \in 1..Len(frame) |-> frame[i].row]

\* the features DataFrame of a frame: row for row, or short of its last row
FeaturesOf(frame) ==
    {[i \in 1..Len(frame) |-> frame[i].feat]}
        \cup (IF Len(frame) > 0
              THEN {[i \in 1..(Len(frame) - 1) |-> frame[i].feat]} ELSE {})

StageFrames ==
    FramesOver({Record(GoodRow, GoodFeat),
                Record(GoodRow, [GoodFeat EXCEPT !.txn_amount = Num(0)])})

\* valid_indices: not given, the first record alone, or a list with an index
\* past every frame
ValidIndexChoices == {NoneVal, Some(<<0>>), Some(<<1, 0, 9>>)}

Frames == FramesOver(SemRecords)

\* the batches reports are made of: e escalated records (critical DQS and
\* critical anomaly in turn) and r records for review (borderline DQS), the
\* escalated ones first or last, then one safe record; or the same with a
\* last record that makes the cascade raise
EscalatedPayload(i) ==
    IF i % 2 = 1 THEN [CleanPayload EXCEPT !.dqs_base = DQS_CRITICAL_THRESHOLD - 1]
    ELSE [CleanPayload EXCEPT !.anomaly_score = 95]

ReviewPayload == [CleanPayload EXCEPT !.dqs_base = DQS_BORDERLINE_THRESHOLD - 1]

Numbered(payloads) == [i \in 1..Len(payloads) |-> [payloads[i] EXCEPT !.record_id = i]]

ReportBatches ==
    {Numbered((IF escalated_first THEN [i \in 1..e |-> EscalatedPayload(i)] \o [i \in 1..r |-> ReviewPayload]
               ELSE [i \in 1..r |-> ReviewPayload] \o [i \in 1..e |-> EscalatedPayload(i)])
              \o <<last>>) :
        e \in 0..MaxEscalated, r \in 0..MaxReviews, escalated_first \in BOOLEAN,
        last \in {CleanPayload, [CleanPayload EXCEPT !.anomaly_score = NoScore]}}

\* the column names imports carry: one name for each required field (its own
\* name or another it is looked for under, some not yet lower case or
\* stripped), "type", under which two schema fields are looked for, and two
\* names of fields that are not required
HeaderNames ==
    {"transaction_id", " Amount ", "ccy", "date", "scheme", "funding_type", "mid", "MCC",
     "country", "user_id", "Risk", "type", "status"}

\* an import: a CSV file or a list of JSON records, with its column names
\* (keys) and its number of rows
CsvInputs ==
    [kind : {"csv"}, headers : SUBSET HeaderNames, n_rows : {0, 1}]
        \cup [kind : {"flat"}, headers : SUBSET HeaderNames, n_rows : {1}]
        \cup [kind : {"flat", "nested"}, headers : {{}}, n_rows : {0}]
        \cup [kind : {"nested"}, headers : {{"transaction"}}, n_rows : {1}]

\* ------------------------------------------------------------------ process_single_transaction
\* What the 'transaction' key of a generated transaction holds: a dict, no
\* such key, or a value that is no dict (an external API may answer
\* {"transaction": null}; generate_transaction hands it on unwrapped).
Headers == {"dict", "absent", "null"}

\* transaction.get('transaction', {}).get('transaction_id') raises
\* AttributeError when the value under the key has no get
TransactionIdRaises(header) == header = "null"

TransactionId(header) == IF header = "dict" THEN Some("txn_id") ELSE NoneVal

\* what eng.run([transaction]) did: it returned a PipelineResult (or nothing),
\* or it raised
Ran(pr_opt) == [raised |-> FALSE, pipeline_result |-> pr_opt]
Crashed == [raised |-> TRUE, pipeline_result |-> NoneVal]

\* mutant: a rejected record is reported like a safe one
ReportedAction_Mut(pr) ==
    IF pr.safe_count > 0 THEN "SAFE_TO_USE"
    ELSE IF pr.escalate_count > 0 THEN "ESCALATE"
    ELSE IF pr.review_count > 0 THEN "REVIEW_REQUIRED"
    ELSE "SAFE_TO_USE"

\* the action reported for a run that succeeded, from its counts
ReportedAction(pr) ==
    IF pr.safe_count > 0 THEN "SAFE_TO_USE"
    ELSE IF pr.escalate_count > 0 THEN "ESCALATE"
    ELSE IF pr.review_count > 0 THEN "REVIEW_REQUIRED"
    ELSE IF pr.rejected_count > 0 THEN "NO_ACTION"
    ELSE "SAFE_TO_USE"

\* the dict the function returns
TransactionResult(header, action, dqs_score, flags) ==
    [raises |-> FALSE, transaction_id |-> TransactionId(header),
     dqs_score |-> dqs_score, action |-> action, flags |-> flags]

\* the exception leaves the function
Propagates == [raises |-> TRUE]

\* Both the return of the try block and the return of the except block
\* evaluate the transaction id, so an exception raised by it in the first is
\* raised again in the second and leaves the function.
ProcessSingleTransaction(header, outcome) ==
    IF TransactionIdRaises(header) THEN Propagates
    ELSE IF outcome.raised THEN
        TransactionResult(header, "ESCALATE", 25, <<Text("Pipeline error")>>)
    ELSE IF IsNone(outcome.pipeline_result) THEN
        TransactionResult(header, "REVIEW_REQUIRED", 50, <<Text("Processing failed")>>)
    ELSE LET pr == Get(outcome.pipeline_result)
         IN IF pr.success
            THEN TransactionResult(header, ReportedAction(pr), pr.average_dqs, <<>>)
            ELSE TransactionResult(header, "REVIEW_REQUIRED", 50, pr.errors)

\* what the worker keeps of one call: the transaction, what run did, and
\* what the call gave
Processed(header, outcome) ==
    [header |-> header, outcome |-> outcome,
     result |-> ProcessSingleTransaction(header, outcome)]

\* ------------------------------------------------------------------ engine
\* The callers of the shared engine: 1 is an /api/run request (run_pipeline),
\* 2 is the streaming worker (process_single_transaction).
Callers == {1, 2}

\* the stages of a run in their fixed order, by layer id: structural
\* integrity, semantic validation, anomaly detection, confidence band,
\* decision gate
Stages == <<"4.1", "4.3", "4.4", "8", "9">>
StageIds == Range(Stages)

\* what a batch handed to run holds: a clean transaction, one with amount 0
\* (the semantic stage rejects every record), or one that reaches the gate
\* without an anomaly score (decide ends in its except branch)
BatchKinds == {"clean", "non_positive_amount", "no_anomaly_score"}

\* what the streaming worker's one-record batches hold: the same, or a record
\* the gate decides as NO_ACTION, ESCALATE or REVIEW_REQUIRED
StreamKinds == BatchKinds \cup {"invalid", "critical_dqs", "borderline_dqs"}

\* a request is among the callers (the runs that overlap are looked at on
\* the narrower inputs: the request's kinds of batch, a transaction with a
\* dict under its key)
WithRequest == pc[1] # "off"

KindsOf(c) == IF WithRequest THEN BatchKinds ELSE StreamKinds

HeadersOf(c) == IF WithRequest THEN {"dict"} ELSE Headers

\* the DataFrames the semantic stage gets for a batch
FrameOf(batch) ==
    <<Record([GoodRow EXCEPT !.txn_transaction_id = batch.batch_id],
             IF batch.kind = "non_positive_amount"
             THEN [GoodFeat EXCEPT !.txn_amount = Num(0)] ELSE GoodFeat)>>

\* the payloads the decision gate gets for a batch
PayloadsOf(batch) ==
    <<[CleanPayload EXCEPT !.record_id = batch.batch_id,
                           !.is_valid = batch.kind # "invalid",
                           !.dqs_base = CASE batch.kind = "critical_dqs" ->
                                                 DQS_CRITICAL_THRESHOLD - 1
                                          [] batch.kind = "borderline_dqs" ->
                                                 DQS_BORDERLINE_THRESHOLD - 1
                                          [] OTHER -> @,
                           !.anomaly_score = IF batch.kind = "no_anomaly_score"
                                             THEN NoScore ELSE 0]>>

\* a stage result as the engine keeps it; of_batch records whose batch the
\* stage worked on
Kept(result, batch) ==
    [status |-> result.status, can_continue |-> result.can_continue,
     of_batch |-> batch.batch_id]

\* the result of a stage that has nothing to report
StagePassed == [status |-> "PASSED", can_continue |-> TRUE]

NoResults == [sid \in StageIds |-> NoneVal]

\* before invoking the next stage the orchestrator looks at can_continue
ShouldHalt(result) == ~result.can_continue

Halted(invoked) ==
    Len(invoked) > 0 /\ ShouldHalt(invoked[Len(invoked)])

\* DQSEngine(gemini_api_key=api_key, use_ai=use_ai and bool(api_key))
\* (instance tells the objects constructed apart)
NewEngine(use_ai, api_key, n) == [use_ai |-> use_ai /\ api_key, instance |-> n]

\* get_engine creates the engine on first use only and returns the one
\* instance to every caller; the caller then has its batch and calls run.
\* A request is served once; the streaming worker takes its next
\* transaction when it is done with the one before.
GetEngine(c) ==
    /\ pc[c] = "idle" \/ (c = 2 /\ pc[c] = "done")
    /\ engine_lock = 0
    /\ \E use_ai \in (IF c = 1 THEN BOOLEAN ELSE {FALSE}), api_key \in BOOLEAN :
           engine' = IF IsNone(engine) THEN Some(NewEngine(use_ai, api_key, constructed + 1))
                     ELSE engine
    /\ constructed' = IF IsNone(engine) THEN constructed + 1 ELSE constructed
    /\ txn_result' = IF c = 2 THEN NoneVal ELSE txn_result
    /\ \E kind \in KindsOf(c) :
           run' = [run EXCEPT ![c] = [batch |-> [batch_id |-> c, kind |-> kind],
                                      stage |-> 1, invoked |-> <<>>, errors |-> <<>>]]
    /\ pc' = [pc EXCEPT ![c] = "run"]
    /\ pipeline_result' = [pipeline_result EXCEPT ![c] = NoneVal]
    /\ layer_details' = [layer_details EXCEPT ![c] = NoneVal]
    /\ UNCHANGED <<layer_results, gateVars, semVars, actVars, repVars, csvVars>>
    /\ UNCHANGED <<strVars, logVars, engine_lock, getters, simVars>>

\* run starts with no stage results
RunStart(c) ==
    /\ pc[c] = "run"
    /\ layer_results' = NoResults
    /\ pc' = [pc EXCEPT ![c] = "stage"]
    /\ UNCHANGED <<engine, run, pipeline_result, layer_details, gateVars, semVars, actVars, repVars, csvVars, appVars>>

\* what run does with the result a stage returned: keep it on the engine,
\* and either go on to the next stage or stop and record the error
AfterStage(c, sid, result) ==
    LET last == run[c].stage = Len(Stages)
    IN /\ layer_results' = [layer_results EXCEPT ![sid] = Some(Kept(result, run[c].batch))]
       /\ run' = [run EXCEPT
                      ![c].stage = @ + 1,
                      ![c].invoked = Append(@, [stage |-> sid, status |-> result.status,
                                                can_continue |-> result.can_continue]),
                      ![c].errors = IF ShouldHalt(result)
                                    THEN Append(@, <<"Pipeline halted at layer", sid>>)
                                    ELSE @]
       /\ pc' = [pc EXCEPT ![c] = IF ShouldHalt(result) \/ last THEN "return" ELSE "stage"]

\* run invokes its next stage
RunStage(c) ==
    /\ pc[c] = "stage"
    /\ LET sid == Stages[run[c].stage]
           frame == FrameOf(run[c].batch)
       IN CASE sid = "4.3" ->
                   /\ Validate(RowsOf(frame), [i \in 1..Len(frame) |-> frame[i].feat], NoneVal)
                   /\ AfterStage(c, sid, Get(sem_result'))
                   /\ UNCHANGED gateVars
            [] sid = "9" ->
                   /\ Decide(PayloadsOf(run[c].batch), <<>>)
                   /\ AfterStage(c, sid, Get(gate_result'))
                   /\ UNCHANGED semVars
            [] OTHER ->
                   /\ AfterStage(c, sid, StagePassed)
                   /\ UNCHANGED <<gateVars, semVars>>
    /\ UNCHANGED <<engine, pipeline_result, layer_details, actVars, repVars, csvVars, appVars>>

\* the decision gate was invoked in this run and decided the batch
GateDecided(invoked) ==
    \E i \in 1..Len(invoked) : invoked[i].stage = "9" /\ invoked[i].can_continue

\* the counts and the average DQS of a PipelineResult: those of the gate's
\* batch summary (rejected_count is the number of NO_ACTION records), zero
\* when the run never got a decision
Summary(invoked, bd_opt) ==
    IF GateDecided(invoked) /\ ~IsNone(bd_opt)
    THEN LET bd == Get(bd_opt)
         IN [total_records |-> bd.total_records,
             safe_count |-> bd.safe_count,
             review_count |-> bd.review_count,
             escalate_count |-> bd.escalate_count,
             rejected_count |-> bd.no_action_count,
             average_dqs |-> IF Len(bd.decisions) = 1 THEN bd.decisions[1].dqs_final
                             ELSE 0]
    ELSE [total_records |-> 0, safe_count |-> 0, review_count |-> 0,
          escalate_count |-> 0, rejected_count |-> 0, average_dqs |-> 0]

\* run assembles the PipelineResult from what the engine holds
RunReturn(c) ==
    /\ pc[c] = "return"
    /\ pipeline_result' =
           [pipeline_result EXCEPT ![c] =
                Some([batch_id |-> run[c].batch.batch_id,
                      success |-> ~Halted(run[c].invoked),
                      errors |-> run[c].errors,
                      layer_results |-> layer_results,
                      summary |-> Summary(run[c].invoked, batch_decision)])]
    /\ pc' = [pc EXCEPT ![c] = "read"]
    /\ UNCHANGED <<engine, layer_results, run, layer_details, gateVars, semVars, actVars, repVars, csvVars, appVars>>

\* the PipelineResult as process_single_transaction reads it
Flat(pr) ==
    [success |-> pr.success, errors |-> pr.errors,
     safe_count |-> pr.summary.safe_count,
     review_count |-> pr.summary.review_count,
     escalate_count |-> pr.summary.escalate_count,
     rejected_count |-> pr.summary.rejected_count,
     average_dqs |-> pr.summary.average_dqs]

\* the caller builds layer_details from eng.layer_results after run
\* returned; process_single_transaction then returns its dict to the worker
ReadLayerResults(c) ==
    /\ pc[c] = "read"
    /\ layer_details' = [layer_details EXCEPT ![c] = Some(layer_results)]
    /\ pc' = [pc EXCEPT ![c] = "done"]
    /\ IF c = 2
       THEN \E header \in HeadersOf(c) :
               txn_result' = Some(Processed(header, Ran(Some(Flat(Get(pipeline_result[c]))))))
       ELSE UNCHANGED txn_result
    /\ UNCHANGED <<engine, layer_results, run, pipeline_result, gateVars, semVars, actVars, repVars, csvVars>>
    /\ UNCHANGED <<strVars, logVars, lockVars, simVars>>

\* eng.run raises instead of returning: process_single_transaction goes to
\* its except block
RunRaises(c) ==
    /\ c = 2
    /\ pc[c] = "run"
    /\ pc' = [pc EXCEPT ![c] = "done"]
    /\ \E header \in HeadersOf(c) : txn_result' = Some(Processed(header, Crashed))
    /\ UNCHANGED <<engine, layer_results, run, pipeline_result, layer_details>>
    /\ UNCHANGED <<gateVars, semVars, actVars, repVars, csvVars>>
    /\ UNCHANGED <<strVars, logVars, lockVars, simVars>>

\* ------------------------------------------------------------------ get_engine
\* the threads that call get_engine at the same time, each once
MaxGetters == 3
GetThreads == 1..MaxGetters

\* mutant: the lock excludes nobody
LockFree_Mut(lock) == TRUE

\* `with _engine_lock:` is entered when nobody holds the lock
LockFree(lock) == lock = 0

Getter(at, use_ai, returned) == [at |-> at, use_ai |-> use_ai, returned |-> returned]

\* a thread calls get_engine(use_ai)
GetEngineEnter(t) ==
    /\ getters[t].at = "out"
    /\ \E use_ai \in BOOLEAN : getters' = [getters EXCEPT ![t] = Getter("wait", use_ai, NoneVal)]
    /\ UNCHANGED <<engine, engine_lock, constructed>>

GetEngineAcquire(t) ==
    /\ getters[t].at = "wait"
    /\ LockFree(engine_lock)
    /\ engine_lock' = t
    /\ getters' = [getters EXCEPT ![t].at = "locked"]
    /\ UNCHANGED <<engine, constructed>>

\* if engine is None:
GetEngineTest(t) ==
    /\ getters[t].at = "locked"
    /\ getters' = [getters EXCEPT ![t].at = IF IsNone(engine) THEN "create" ELSE "return"]
    /\ UNCHANGED <<engine, engine_lock, constructed>>

\* the instance constructed n-th, with the AI setting of the call and of the
\* environment's GEMINI_API_KEY
GetEngineConstruct(t) ==
    /\ getters[t].at = "create"
    /\ \E api_key \in BOOLEAN :
           engine' = Some(NewEngine(getters[t].use_ai, api_key, constructed + 1))
    /\ constructed' = constructed + 1
    /\ getters' = [getters EXCEPT ![t].at = "return"]
    /\ UNCHANGED engine_lock

\* return engine, leaving the with block
GetEngineRelease(t) ==
    /\ getters[t].at = "return"
    /\ getters' = [getters EXCEPT ![t].at = "done", ![t].returned = engine]
    /\ engine_lock' = 0
    /\ UNCHANGED <<engine, constructed>>

\* ------------------------------------------------------------------ LiveLogStorage
\* add_log writes the file when the list's length is a multiple of this
SaveEvery == 10

\* mutant: the file is written after the first entry of every ten
SaveDue_Mut(n) == n % SaveEvery = 1

SaveDue(n) == n % SaveEvery = 0

\* the entry add_log builds (the timestamp, the clock's, is left out)
LogEntry(header, result) ==
    [transaction_id |-> TransactionId(header), dqs_score |-> result.dqs_score,
     action |-> result.action, flags |-> result.flags]

\* add_log: append, and save when due; all under the storage's lock
AddLog(header, result) ==
    /\ logs' = Append(logs, LogEntry(header, result))
    /\ log_file' = IF SaveDue(Len(logs')) THEN logs' ELSE log_file

\* clear_logs: empty the list and save it
ClearLogs ==
    /\ logs' = <<>>
    /\ log_file' = <<>>

\* flush: save
Flush ==
    /\ log_file' = logs
    /\ UNCHANGED logs

\* ------------------------------------------------------------------ streaming
\* the threads start_stream can ever create
MaxThreads == 2
Threads == 1..MaxThreads

\* the entries the stream may log before it is stopped for good
MaxStreamed == 2

\* inside `while True:` of streaming_worker
InLoop(w) == workers[w] \in {"check", "work", "sleep"}

\* what a worker's call of process_single_transaction meets in this model:
\* a run that raises, or one that returns nothing
StreamOutcomes == {Crashed, Ran(NoneVal)}

\* with _streaming_lock: if not streaming_active: break
WorkerCheck(w) ==
    /\ workers[w] = "check"
    /\ workers' = [workers EXCEPT ![w] = IF streaming_active THEN "work" ELSE "flush"]
    /\ UNCHANGED <<streaming_active, stream_status, logVars, txn_result>>

\* the try block: generate a transaction, process it, log it, emit it; an
\* exception goes to the except block, which logs nothing. Both end in
\* time.sleep(1).
WorkerProcess(w) ==
    /\ workers[w] = "work"
    /\ Len(logs) < MaxStreamed
    /\ \E header \in Headers, outcome \in StreamOutcomes :
          \E done \in {Processed(header, outcome)} :
              /\ txn_result' = Some(done)
              /\ IF done.result.raises THEN UNCHANGED logVars
                 ELSE AddLog(header, done.result)
    /\ workers' = [workers EXCEPT ![w] = "sleep"]
    /\ UNCHANGED <<streaming_active, stream_status>>

\* the sleep is over
WorkerWake(w) ==
    /\ workers[w] = "sleep"
    /\ workers' = [workers EXCEPT ![w] = "check"]
    /\ UNCHANGED <<streaming_active, stream_status, logVars, txn_result>>

\* after the loop: log_storage.flush()
WorkerFlush(w) ==
    /\ workers[w] = "flush"
    /\ Flush
    /\ workers' = [workers EXCEPT ![w] = "exited"]
    /\ UNCHANGED <<streaming_active, stream_status, txn_result>>

NotStarted == {w \in Threads : workers[w] = "unborn"}

\* handle_start_stream, all under _streaming_lock (the anomaly rate it may
\* set only changes how often the generator draws an anomaly)
StartStream ==
    /\ IF streaming_active
       THEN /\ stream_status' = "already_running"
            /\ UNCHANGED <<streaming_active, workers>>
       ELSE /\ NotStarted # {}
            /\ streaming_active' = TRUE
            /\ LET w == CHOOSE x \in NotStarted : \A y \in NotStarted : x <= y
               IN workers' = [workers EXCEPT ![w] = "check"]
            /\ stream_status' = "started"
    /\ UNCHANGED <<logVars, txn_result>>

\* handle_stop_stream
StopStream ==
    /\ streaming_active' = FALSE
    /\ stream_status' = "stopped"
    /\ UNCHANGED <<workers, logVars, txn_result>>

\* ------------------------------------------------------------------ simulated settlement
\* The amounts a for which the double a * 0.011 lies below the integer
\* 11a/1000, so that int() gives one less than the exact floor (for 0.008 and
\* 0.003 no amount of 100..500000 does).
RoundsBelow ==
    {23000, 45000, 46000, 90000, 91000, 92000, 93000, 179000, 180000, 181000,
     182000, 183000, 184000, 185000, 186000, 357000, 358000, 359000, 360000,
     361000, 362000, 363000, 364000, 365000, 366000, 367000, 368000, 369000,
     370000, 371000, 372000}

\* int(amount * per_mille / 1000) as the doubles give it
IntOfProduct(amount, per_mille) ==
    (per_mille * amount) \div 1000
        - (IF per_mille = 11 /\ amount \in RoundsBelow THEN 1 ELSE 0)

\* the settlement block of a simulated transaction
SimulatedSettlement(amount) ==
    [gross |-> amount,
     int_fee |-> IntOfProduct(amount, 8),
     gw_fee |-> IntOfProduct(amount, 3),
     net |-> amount - IntOfProduct(amount, 11)]

\* the row of a simulated transaction as the semantic stage gets it
SimulatedRow(amount) == [GoodRow EXCEPT !.settlement = Some(SimulatedSettlement(amount))]

\* ------------------------------------------------------------------ specifications
InitGate ==
    /\ decisions = <<>>
    /\ batch_decision = NoneVal
    /\ gate_call = NoneVal
    /\ gate_result = NoneVal
    /\ gate_repeat = FALSE

InitSem ==
    /\ validation_results = <<>>
    /\ rejected_indices = <<>>
    /\ flagged_indices = <<>>
    /\ sem_call = NoneVal
    /\ sem_result = NoneVal

\* the log storage after construction: the file is absent, or holds the
\* entries of an earlier stream that _load_logs read
InitLogs(loaded) ==
    /\ logs = loaded
    /\ log_file = loaded

\* app.py after import: nobody streams, the lock is free; the log storage
\* has loaded one of the lists given, the threads that will call get_engine
\* stand at getter_at, and the generator will draw one of the amounts
InitApp(loaded, getter_at, amounts) ==
    /\ streaming_active = FALSE
    /\ workers = [w \in Threads |-> "unborn"]
    /\ stream_status = "none"
    /\ \E l \in loaded : InitLogs(l)
    /\ txn_result = NoneVal
    /\ engine_lock = 0
    /\ getters = [t \in GetThreads |-> Getter(getter_at, FALSE, NoneVal)]
    /\ constructed = 0
    /\ sim_in \in amounts
    /\ sim_out = NoneVal

InitAppIdle == InitApp({<<>>}, "off", {100})

InitCsvIdle ==
    /\ csv_in = [kind |-> "csv", headers |-> {}, n_rows |-> 0]
    /\ csv_out = NoneVal

\* no call of the cascade, no report, no import
InitRestIdle ==
    /\ act_in = [r |-> CleanPayload, confidence_band |-> "MEDIUM", confidence_score |-> 50]
    /\ act_out = NoneVal
    /\ report = NoneVal
    /\ InitCsvIdle

InitActIdle ==
    /\ act_in = [r |-> CleanPayload, confidence_band |-> "MEDIUM", confidence_score |-> 50]
    /\ act_out = NoneVal
    /\ report = NoneVal
    /\ InitCsvIdle
    /\ InitAppIdle

\* one _determine_action call on any payload and confidence
InitAct ==
    /\ act_in \in [r : Payloads, confidence_band : Bands, confidence_score : {30, 60, 90}]
    /\ act_out = NoneVal
    /\ report = NoneVal
    /\ InitCsvIdle
    /\ InitAppIdle

\* no engine yet; the callers named are idle, the others never call
InitEngine(callers) ==
    /\ engine = NoneVal
    /\ layer_results = NoResults
    /\ pc = [c \in Callers |-> IF c \in callers THEN "idle" ELSE "off"]
    /\ run = [c \in Callers |-> [batch |-> [batch_id |-> c, kind |-> "clean"],
                                  stage |-> 1, invoked |-> <<>>, errors |-> <<>>]]
    /\ pipeline_result = [c \in Callers |-> NoneVal]
    /\ layer_details = [c \in Callers |-> NoneVal]

\* no call made yet on either layer
Init == InitGate /\ InitSem /\ InitActIdle /\ InitEngine({})

\* the start of the one-call specification of the cascade
InitAction == InitGate /\ InitSem /\ InitAct /\ InitEngine({})

\* the streaming worker alone, and next to a request
InitRun == InitGate /\ InitSem /\ InitActIdle /\ InitEngine({2})
InitRuns == InitGate /\ InitSem /\ InitActIdle /\ InitEngine(Callers)

DecideCall ==
    /\ \E b \in Batches, c \in AssessmentLists : Decide(b, c)
    /\ UNCHANGED <<semVars, actVars, engVars, repVars, csvVars, appVars>>

ValidateCall ==
    /\ \E frame \in Frames, vi \in ValidIndexChoices :
          \E feats \in FeaturesOf(frame) : Validate(RowsOf(frame), feats, vi)
    /\ UNCHANGED <<gateVars, actVars, engVars, repVars, csvVars, appVars>>

DetermineActionCall ==
    /\ IsNone(act_out)
    /\ act_out' = Some(DetermineAction(act_in.r, act_in.confidence_band,
                                       act_in.confidence_score))
    /\ UNCHANGED <<act_in, gateVars, semVars, engVars, repVars, csvVars, appVars>>

\* the decision gate under any sequence of decide calls
NextGate == DecideCall
SpecGate == Init /\ [][NextGate]_vars

\* the semantic layer under any sequence of validate calls
NextSem == ValidateCall
SpecSem == Init /\ [][NextSem]_vars

\* both stages side by side, on the inputs that reach their error paths
DecideStage ==
    /\ \E b \in StageBatches : Decide(b, <<>>)
    /\ UNCHANGED <<semVars, actVars, engVars, repVars, csvVars, appVars>>

ValidateStage ==
    /\ \E frame \in StageFrames :
          \E feats \in FeaturesOf(frame) : Validate(RowsOf(frame), feats, NoneVal)
    /\ UNCHANGED <<gateVars, actVars, engVars, repVars, csvVars, appVars>>

NextStages == DecideStage \/ ValidateStage
SpecStages == Init /\ [][NextStages]_vars

\* the cascade alone, on every payload of the input space
NextAction == DetermineActionCall
SpecAction == InitAction /\ [][NextAction]_vars

\* the engine under the streaming worker's runs, one after the other
GetEngineCall == \E c \in Callers : GetEngine(c)
RunStartStep == \E c \in Callers : RunStart(c)
RunStageStep == \E c \in Callers : RunStage(c)
RunReturnStep == \E c \in Callers : RunReturn(c)
ReadLayerResultsStep == \E c \in Callers : ReadLayerResults(c)
RunRaisesStep == \E c \in Callers : RunRaises(c)

NextEngine ==
    \/ GetEngineCall
    \/ RunStartStep
    \/ RunStageStep
    \/ RunReturnStep
    \/ ReadLayerResultsStep

\* the worker alone also meets runs that raise
NextWorker == NextEngine \/ RunRaisesStep

SpecRun == InitRun /\ [][NextWorker]_vars

\* the engine under a request that overlaps the streaming worker's runs
SpecRuns == InitRuns /\ [][NextEngine]_vars

\* a report made of one decided batch
DecideForReport ==
    /\ IsNone(gate_call)
    /\ \E b \in ReportBatches : Decide(b, <<>>)
    /\ UNCHANGED <<semVars, actVars, engVars, repVars, csvVars, appVars>>

GenerateDecisionReportCall ==
    /\ ~IsNone(gate_call)
    /\ IsNone(report)
    /\ report' = Some(GenerateDecisionReport(decisions, batch_decision))
    /\ UNCHANGED <<gateVars, semVars, actVars, engVars, csvVars, appVars>>

NextReport == DecideForReport \/ GenerateDecisionReportCall
SpecReport == Init /\ [][NextReport]_vars

\* one call of an adapter on any import
InitCsv ==
    /\ InitGate /\ InitSem /\ InitEngine({})
    /\ act_in = [r |-> CleanPayload, confidence_band |-> "MEDIUM", confidence_score |-> 50]
    /\ act_out = NoneVal
    /\ report = NoneVal
    /\ csv_in \in CsvInputs
    /\ csv_out = NoneVal
    /\ InitAppIdle

AdaptCsvCall ==
    /\ IsNone(csv_out)
    /\ csv_in.kind = "csv"
    /\ csv_out' = Some(AdaptCsvToVisa(csv_in.headers, csv_in.n_rows))
    /\ UNCHANGED <<csv_in, gateVars, semVars, actVars, engVars, repVars, appVars>>

AdaptFlatJsonCall ==
    /\ IsNone(csv_out)
    /\ csv_in.kind # "csv"
    /\ csv_out' = Some(AdaptFlatJsonToVisa(csv_in.kind, csv_in.headers, csv_in.n_rows))
    /\ UNCHANGED <<csv_in, gateVars, semVars, actVars, engVars, repVars, appVars>>

NextCsv == AdaptCsvCall \/ AdaptFlatJsonCall
SpecCsv == InitCsv /\ [][NextCsv]_vars

\* what the actions of app.py's threads and of the log storage leave alone
PipelineIdle == UNCHANGED <<gateVars, semVars, actVars, engVars, repVars, csvVars>>

\* the stream: start and stop events, the workers' steps, and a request
\* that clears the logs
StartStreamCall == StartStream /\ PipelineIdle /\ UNCHANGED <<lockVars, simVars>>
StopStreamCall == StopStream /\ PipelineIdle /\ UNCHANGED <<lockVars, simVars>>

WorkerStep(w) ==
    /\ WorkerCheck(w) \/ WorkerProcess(w) \/ WorkerWake(w) \/ WorkerFlush(w)
    /\ PipelineIdle
    /\ UNCHANGED <<lockVars, simVars>>

WorkerCheckStep == \E w \in Threads : WorkerCheck(w) /\ WorkerStep(w)
WorkerProcessStep == \E w \in Threads : WorkerProcess(w) /\ WorkerStep(w)
WorkerWakeStep == \E w \in Threads : WorkerWake(w) /\ WorkerStep(w)
WorkerFlushStep == \E w \in Threads : WorkerFlush(w) /\ WorkerStep(w)

ClearLogsCall ==
    /\ ClearLogs
    /\ PipelineIdle
    /\ UNCHANGED <<strVars, txnVars, lockVars, simVars>>

NextStream ==
    \/ StartStreamCall
    \/ StopStreamCall
    \/ WorkerCheckStep
    \/ WorkerProcessStep
    \/ WorkerWakeStep
    \/ WorkerFlushStep
    \/ ClearLogsCall

SpecStream == Init /\ [][NextStream]_vars

\* every worker thread that can take a step is scheduled again
SpecStreamFair == SpecStream /\ \A w \in Threads : WF_vars(WorkerStep(w))

\* the log storage under any sequence of its calls
MaxLogs == 11

\* what add_log is called with: a transaction and the result of a run that
\* raised, or a transaction without the key and the result of a run that
\* returned nothing
LogArgs ==
    {[header |-> "dict", result |-> ProcessSingleTransaction("dict", Crashed)],
     [header |-> "absent", result |-> ProcessSingleTransaction("absent", Ran(NoneVal))]}

\* the file is absent, or holds the nine entries an earlier stream left
LoadedLogs ==
    {<<>>,
     [i \in 1..(SaveEvery - 1) |->
          LogEntry("dict", ProcessSingleTransaction("dict", Crashed))]}

InitLog ==
    /\ InitGate /\ InitSem /\ InitEngine({}) /\ InitRestIdle
    /\ InitApp(LoadedLogs, "off", {100})

AddLogCall ==
    /\ Len(logs) < MaxLogs
    /\ \E a \in LogArgs : AddLog(a.header, a.result)
    /\ PipelineIdle
    /\ UNCHANGED <<strVars, txnVars, lockVars, simVars>>

FlushCall ==
    /\ Flush
    /\ PipelineIdle
    /\ UNCHANGED <<strVars, txnVars, lockVars, simVars>>

NextLog == AddLogCall \/ ClearLogsCall \/ FlushCall
SpecLog == InitLog /\ [][NextLog]_vars

\* threads that call get_engine at the same time
InitGetters ==
    /\ InitGate /\ InitSem /\ InitEngine({}) /\ InitRestIdle
    /\ InitApp({<<>>}, "out", {100})

GetterIdle ==
    /\ UNCHANGED <<layer_results, pc, run, pipeline_result, layer_details>>
    /\ UNCHANGED <<gateVars, semVars, actVars, repVars, csvVars>>
    /\ UNCHANGED <<strVars, logVars, txnVars, simVars>>

GetEngineEnterStep == \E t \in GetThreads : GetEngineEnter(t) /\ GetterIdle
GetEngineAcquireStep == \E t \in GetThreads : GetEngineAcquire(t) /\ GetterIdle
GetEngineTestStep == \E t \in GetThreads : GetEngineTest(t) /\ GetterIdle
GetEngineConstructStep == \E t \in GetThreads : GetEngineConstruct(t) /\ GetterIdle
GetEngineReleaseStep == \E t \in GetThreads : GetEngineRelease(t) /\ GetterIdle

NextGetters ==
    \/ GetEngineEnterStep
    \/ GetEngineAcquireStep
    \/ GetEngineTestStep
    \/ GetEngineConstructStep
    \/ GetEngineReleaseStep

SpecGetters == InitGetters /\ [][NextGetters]_vars

\* one simulated transaction of any amount, handed to BR002
MaxAmount == 1200

\* the amounts the generator draws lie in 100..500000; the model takes the
\* lowest ones, those on which the doubles round below, and the highest
Amounts == (100..MaxAmount) \cup RoundsBelow \cup {500000}

InitSim ==
    /\ InitGate /\ InitSem /\ InitEngine({}) /\ InitRestIdle
    /\ InitApp({<<>>}, "off", Amounts)

SimulateTransaction ==
    /\ IsNone(sim_out)
    /\ sim_out' = Some([settlement |-> SimulatedSettlement(sim_in),
                        br002 |-> CheckSettlementMath(SimulatedRow(sim_in), GoodFeat)])
    /\ PipelineIdle
    /\ UNCHANGED <<sim_in, strVars, logVars, txnVars, lockVars>>

NextSim == SimulateTransaction
SpecSim == InitSim /\ [][NextSim]_vars

\* one decide call on a batch of one record, of any payload
AuditAssessments ==
    {<<>>, <<Assessment(1, "HIGH", 90)>>, <<Assessment(1, "LOW", 30)>>,
     <<Assessment(2, "LOW", 30)>>, <<Assessment(2, "HIGH", 90)>>}

DecideOne ==
    /\ IsNone(gate_call)
    /\ \E r \in Payloads, cas \in AuditAssessments : Decide(<<r>>, cas)
    /\ UNCHANGED <<semVars, actVars, engVars, repVars, csvVars, appVars>>

NextAudit == DecideOne
SpecAudit == Init /\ [][NextAudit]_vars

\* ------------------------------------------------------------------ claims
\* the most recent decide call and what it returned
LastPayloads == Get(gate_call).record_payloads
LastGateStatus == Get(gate_result).status

\* the one _determine_action call of SpecAction and what it returned
Called == ~IsNone(act_out)
Out == Get(act_out)

\* C1: after decide has handled a non-empty batch without an internal error,
\* there is exactly one Decision per payload, in order, each with one of the
\* four actions, and the four counts of the batch summary add up to
\* total_records, which is the number of payloads.
C1_CountsSumToTotal ==
    (~IsNone(gate_call) /\ Len(LastPayloads) > 0 /\ LastGateStatus # "FAILED") =>
        LET bd == Get(batch_decision)
        IN /\ Len(decisions) = Len(LastPayloads)
           /\ \A i \in 1..Len(LastPayloads) :
                  /\ decisions[i].record_id = LastPayloads[i].record_id
                  /\ decisions[i].action \in Actions
           /\ bd.decisions = decisions
           /\ bd.safe_count + bd.review_count + bd.escalate_count + bd.no_action_count
                  = bd.total_records
           /\ bd.total_records = Len(LastPayloads)

\* a batch of two was decided: one record is safe, the other needs review
C1_Witness ==
    /\ ~IsNone(gate_call)
    /\ Len(LastPayloads) = 2
    /\ LastGateStatus # "FAILED"
    /\ Get(batch_decision).safe_count = 1
    /\ Get(batch_decision).review_count = 1

\* C2: a payload with is_valid = False gets NO_ACTION with the reason "Record
\* failed structural validation", whatever its DQS, anomaly score, anomaly
\* flags, semantic violations and confidence band are.
C2_InvalidIsNoAction ==
    (Called /\ ~act_in.r.is_valid) =>
        /\ ~Out.raised
        /\ Out.action = "NO_ACTION"
        /\ Out.reason = Text("Record failed structural validation")

\* an invalid payload that every later rule would have caught too
C2_Witness ==
    /\ Called
    /\ ~act_in.r.is_valid
    /\ act_in.r.dqs_base < DQS_CRITICAL_THRESHOLD
    /\ act_in.r.anomaly_score = 100
    /\ Len(act_in.r.semantic_violations) > 0
    /\ act_in.confidence_band = "LOW"
    /\ Out.action = "NO_ACTION"

\* C3: a valid payload with dqs_base >= DQS_CRITICAL_THRESHOLD, an anomaly
\* score <= 0.9 and a non-empty semantic_violations list gets ESCALATE with a
\* reason naming the business rules.
C3_SemanticViolationsEscalate ==
    (/\ Called
     /\ act_in.r.is_valid
     /\ act_in.r.dqs_base >= DQS_CRITICAL_THRESHOLD
     /\ act_in.r.anomaly_score # NoScore
     /\ act_in.r.anomaly_score <= 90
     /\ Len(act_in.r.semantic_violations) > 0) =>
        /\ ~Out.raised
        /\ Out.action = "ESCALATE"
        /\ Out.reason[1] = "Business Rules"

\* C4: an amount <= 0 fails the critical rule BR001, so the record does not
\* pass validation, and a payload that carries the BR001 violation in
\* semantic_violations never gets SAFE_TO_USE.
C4_NonPositiveAmountNeverSafe ==
    /\ \A amount \in {0 - 5, 0} :
           LET v == ValidateRecord(1, GoodRow, [GoodFeat EXCEPT !.txn_amount = Num(amount)])
           IN /\ ~v.passes_validation
              /\ \E k \in 1..Len(v.critical_violations) :
                     v.critical_violations[k].rule_id = "BR001"
    /\ (/\ Called
        /\ \E k \in 1..Len(act_in.r.semantic_violations) :
               act_in.r.semantic_violations[k] =
                   CheckPositiveAmount(GoodRow, [GoodFeat EXCEPT !.txn_amount = Num(0)]).message)
           => (~Out.raised => Out.action # "SAFE_TO_USE")

\* C5: a valid payload with dqs_base < DQS_CRITICAL_THRESHOLD gets ESCALATE
\* with the critical-DQS reason, whatever its anomaly score (set or not),
\* anomaly flags, is_anomaly, semantic violations and confidence band are.
C5_CriticalDqsEscalates ==
    (Called /\ act_in.r.is_valid /\ act_in.r.dqs_base < DQS_CRITICAL_THRESHOLD) =>
        /\ ~Out.raised
        /\ Out.action = "ESCALATE"
        /\ Out.reason = Msg("Critical DQS score", act_in.r.dqs_base)

\* a DQS one point under the threshold with every other signal clean
C5_Witness ==
    /\ Called
    /\ act_in.r.is_valid
    /\ act_in.r.dqs_base = DQS_CRITICAL_THRESHOLD - 1
    /\ ~act_in.r.is_anomaly
    /\ act_in.r.anomaly_score = 0
    /\ Len(act_in.r.semantic_violations) = 0
    /\ act_in.confidence_band = "HIGH"
    /\ Out.action = "ESCALATE"

\* C6: a valid payload with anomaly_score > 0.9 gets ESCALATE, and when its
\* DQS is not critical the reason is the critical anomaly.
C6_CriticalAnomalyEscalates ==
    (Called /\ act_in.r.is_valid /\ act_in.r.anomaly_score > 90) =>
        /\ ~Out.raised
        /\ Out.action = "ESCALATE"
        /\ act_in.r.dqs_base >= DQS_CRITICAL_THRESHOLD =>
               Out.reason = Msg("Critical anomaly detected", act_in.r.anomaly_score)

\* DQS 100, HIGH confidence, not flagged as anomaly, no violations, score 0.91
C6_Witness ==
    /\ Called
    /\ act_in.r.is_valid
    /\ act_in.r.dqs_base = 100
    /\ act_in.r.anomaly_score = 91
    /\ ~act_in.r.is_anomaly
    /\ Len(act_in.r.semantic_violations) = 0
    /\ act_in.confidence_band = "HIGH"
    /\ Out.action = "ESCALATE"

\* C7: for a valid payload with dqs_base >= DQS_CRITICAL_THRESHOLD, an anomaly
\* score <= 0.9 and no semantic violations, the action is that of the first
\* rule that matches, in this order: anomaly with >= 3 flags and score > 0.7
\* -> ESCALATE; dqs_base < DQS_BORDERLINE_THRESHOLD -> REVIEW_REQUIRED;
\* anomaly and band not HIGH -> REVIEW_REQUIRED; band LOW -> REVIEW_REQUIRED;
\* score > 0.8 -> REVIEW_REQUIRED; otherwise SAFE_TO_USE.
C7_CascadeOrder ==
    (/\ Called
     /\ act_in.r.is_valid
     /\ act_in.r.dqs_base >= DQS_CRITICAL_THRESHOLD
     /\ act_in.r.anomaly_score # NoScore
     /\ act_in.r.anomaly_score <= 90
     /\ Len(act_in.r.semantic_violations) = 0) =>
        LET r == act_in.r
            band == act_in.confidence_band
            expected ==
                IF r.is_anomaly /\ Len(r.anomaly_flags) >= 3 /\ r.anomaly_score > 70
                    THEN <<"ESCALATE", "Multiple anomaly flags">>
                ELSE IF r.dqs_base < DQS_BORDERLINE_THRESHOLD
                    THEN <<"REVIEW_REQUIRED", "Borderline quality score">>
                ELSE IF r.is_anomaly /\ band # "HIGH"
                    THEN <<"REVIEW_REQUIRED", "Anomaly detected with uncertain confidence">>
                ELSE IF band = "LOW"
                    THEN <<"REVIEW_REQUIRED", "Low confidence in quality assessment">>
                ELSE IF r.anomaly_score > 80
                    THEN <<"REVIEW_REQUIRED", "Very high anomaly score requires review">>
                ELSE <<"SAFE_TO_USE", "Record passes all quality checks">>
        IN /\ ~Out.raised
           /\ Out.action = expected[1]
           /\ Out.reason[1] = expected[2]

\* the last rule before the default is the one that matched
C7_Witness ==
    /\ Called
    /\ act_in.r.is_valid
    /\ act_in.r.dqs_base = DQS_BORDERLINE_THRESHOLD
    /\ act_in.r.anomaly_score = 81
    /\ Len(act_in.r.semantic_violations) = 0
    /\ ~act_in.r.is_anomaly
    /\ act_in.confidence_band = "HIGH"
    /\ Out.action = "REVIEW_REQUIRED"
    /\ Out.reason[1] = "Very high anomaly score requires review"

C9_ErrorDefaultsToReview ==
    (~IsNone(gate_call) /\ LastGateStatus = "FAILED") =>
        /\ Len(decisions) = Len(LastPayloads)
        /\ \A i \in 1..Len(LastPayloads) :
               /\ decisions[i].record_id = LastPayloads[i].record_id
               /\ decisions[i].action = "REVIEW_REQUIRED"

\* the loop of the most recent decide call met a payload whose anomaly score
\* was never set after the validity and critical-DQS rules let it through
GateHitError ==
    /\ ~IsNone(gate_call)
    /\ \E i \in 1..Len(LastPayloads) :
           /\ LastPayloads[i].is_valid
           /\ LastPayloads[i].dqs_base >= DQS_CRITICAL_THRESHOLD
           /\ LastPayloads[i].anomaly_score = NoScore

\* the loop of the most recent validate call reached a row of the DataFrame
\* that the features DataFrame does not have
SemHitError ==
    /\ ~IsNone(sem_call)
    /\ LET c == Get(sem_call)
           indices == IF IsNone(c.valid_indices)
                      THEN [i \in 1..Len(c.dataframe) |-> i - 1]
                      ELSE Get(c.valid_indices)
       IN \E k \in 1..Len(indices) :
              indices[k] < Len(c.dataframe) /\ indices[k] >= Len(c.features_df)

Caught(result) ==
    /\ ~IsNone(result)
    /\ Get(result).status = "FAILED"
    /\ ~Get(result).can_continue
    /\ Len(Get(result).issues) = 1

\* C10: a validate or decide call that hits an unexpected error still returns
\* a LayerResult: status FAILED, can_continue False, exactly one issue.
C10_StageErrorsAreCaught ==
    /\ GateHitError => Caught(gate_result)
    /\ SemHitError => Caught(sem_result)

\* both stages have returned from a call that hit an error
C10_Witness ==
    /\ GateHitError
    /\ SemHitError
    /\ Caught(gate_result)
    /\ Caught(sem_result)

OwnResults(c, results) ==
    \A sid \in StageIds :
        IF \E i \in 1..Len(run[c].invoked) : run[c].invoked[i].stage = sid
        THEN ~IsNone(results[sid]) /\ Get(results[sid]).of_batch = run[c].batch.batch_id
        ELSE IsNone(results[sid])

\* C12: when runs on the shared engine overlap, what each caller ends up
\* with (the stage results of its PipelineResult and the layer_details it
\* reads from eng.layer_results after run returned) comes from its own batch
\* only.
C12_OverlappingRunsAreIsolated ==
    \A c \in Callers :
        /\ ~IsNone(pipeline_result[c]) => OwnResults(c, Get(pipeline_result[c]).layer_results)
        /\ ~IsNone(layer_details[c]) => OwnResults(c, Get(layer_details[c]))

\* the records the most recent validate call evaluated: how many there are,
\* how many have a critical violation, how many have warnings only
Evaluated == Len(validation_results)
RejectedCount ==
    Cardinality({j \in 1..Evaluated : Len(validation_results[j].critical_violations) > 0})
FlaggedCount ==
    Cardinality({j \in 1..Evaluated :
                    /\ Len(validation_results[j].critical_violations) = 0
                    /\ Len(validation_results[j].warnings) > 0})

\* FAILED exactly when every evaluated record is rejected, DEGRADED when some
\* record is rejected or flagged, PASSED otherwise; can_continue unless
\* every evaluated record is rejected
StatusFollowsRecords ==
    LET all_rejected == Evaluated > 0 /\ RejectedCount = Evaluated
    IN /\ Get(sem_result).status =
              (IF all_rejected THEN "FAILED"
               ELSE IF RejectedCount > 0 \/ FlaggedCount > 0 THEN "DEGRADED"
               ELSE "PASSED")
       /\ Get(sem_result).can_continue = ~all_rejected

\* C13 as stated: the status and can_continue of every validate call follow
\* from the rejected and flagged records alone.
C13_StatusOfEveryCall ==
    ~IsNone(sem_result) => StatusFollowsRecords

\* C13, amended: the status and can_continue of a validate call that did not
\* hit an unexpected error follow from the rejected and flagged records
\* (FAILED only if all are rejected, DEGRADED if some are rejected or
\* flagged, PASSED otherwise, also when no record is evaluated).
C13_StatusOfCompletedCall ==
    (~IsNone(sem_result) /\ ~SemHitError) => StatusFollowsRecords

\* two records were evaluated, one rejected and one clean: DEGRADED, and the
\* pipeline may go on
C13_Witness ==
    /\ ~IsNone(sem_result)
    /\ ~SemHitError
    /\ Evaluated = 2
    /\ RejectedCount = 1
    /\ FlaggedCount = 0
    /\ Get(sem_result).status = "DEGRADED"
    /\ Get(sem_result).can_continue

\* the indices the most recent validate call had to evaluate, and the row
\* and feature row behind its j-th SemanticValidation
SemIndices ==
    InRange(Get(sem_call).dataframe,
            ProcessIndices(Get(sem_call).dataframe, Get(sem_call).valid_indices))
SemRow(j) == Get(sem_call).dataframe[SemIndices[j] + 1]
SemFeat(j) == Get(sem_call).features_df[SemIndices[j] + 1]

\* C14: a rule whose check raises on a record is kept for that record as a
\* failed RuleResult of severity warning with the error message: it is in
\* warnings and counted in rules_failed, never in critical_violations, also
\* when the catalog tags the rule critical; the other rules of the record
\* are evaluated (12 results in all), the other records are evaluated, and
\* validate returns without a stage-level issue.
C14_RuleErrorsAreWarnings ==
    ~IsNone(sem_call) =>
        /\ \A j \in 1..Evaluated :
               LET v == validation_results[j]
                   raising == {k \in 1..Len(Rules) :
                                  RunCheck(Rules[k].rule_id, SemRow(j), SemFeat(j)).outcome
                                      = "raise"}
               IN /\ \A k \in raising :
                         /\ \E w \in 1..Len(v.warnings) :
                                /\ v.warnings[w].rule_id = Rules[k].rule_id
                                /\ ~v.warnings[w].passed
                                /\ v.warnings[w].severity = "warning"
                                /\ v.warnings[w].message = Text("Rule evaluation error")
                         /\ \A x \in 1..Len(v.critical_violations) :
                                v.critical_violations[x].rule_id # Rules[k].rule_id
                  /\ v.rules_failed >= Cardinality(raising)
                  /\ v.rules_passed + v.rules_failed = Len(Rules)
                  /\ Len(v.critical_violations) + Len(v.warnings) = v.rules_failed
        /\ ~SemHitError =>
               /\ Evaluated = Len(SemIndices)
               /\ Len(Get(sem_result).issues) = 0

\* the first of two records has a string for its amount: the critical rule
\* BR001 raises on it, the record still passes validation with warnings, and
\* the second record is evaluated after it
C14_Witness ==
    /\ ~IsNone(sem_call)
    /\ ~SemHitError
    /\ Evaluated = 2
    /\ RunCheck("BR001", SemRow(1), SemFeat(1)).outcome = "raise"
    /\ validation_results[1].passes_validation
    /\ Len(validation_results[1].warnings) = 3
    /\ validation_results[2].rules_passed = Len(Rules)
    /\ Get(sem_result).status = "DEGRADED"

\* C15: a processed record passes validation exactly when none of the
\* critical rules' checks failed on it; a record with a critical violation
\* is in rejected_indices and not in flagged_indices, a record that passes
\* with some failed rule is in flagged_indices and not in rejected_indices,
\* a record with no failed rule is in neither, and the two lists share no
\* index.
C15_RejectedOrFlagged ==
    ~IsNone(sem_call) =>
        /\ \A j \in 1..Evaluated :
               LET v == validation_results[j]
                   idx == SemIndices[j]
                   critical_failed ==
                       \E k \in 1..Len(Rules) :
                           /\ Rules[k].severity = "critical"
                           /\ RunCheck(Rules[k].rule_id, SemRow(j), SemFeat(j)).outcome = "fail"
                   rejected == idx \in Range(rejected_indices)
                   flagged == idx \in Range(flagged_indices)
               IN /\ v.passes_validation = ~critical_failed
                  /\ v.passes_validation = (Len(v.critical_violations) = 0)
                  /\ rejected = ~v.passes_validation
                  /\ flagged = (v.passes_validation /\ v.rules_failed > 0)
        /\ Range(rejected_indices) \cap Range(flagged_indices) = {}
        /\ Range(rejected_indices) \cup Range(flagged_indices)
               \subseteq {SemIndices[j] : j \in 1..Evaluated}

\* a frame of a record with amount 0 (a critical and a warning rule fail) and
\* a record with a foreign IP (a warning rule fails): one rejected, one
\* flagged
C15_Witness ==
    /\ ~IsNone(sem_call)
    /\ Evaluated = 2
    /\ Len(validation_results[1].critical_violations) > 0
    /\ Len(validation_results[1].warnings) > 0
    /\ validation_results[2].passes_validation
    /\ Len(validation_results[2].warnings) = 1
    /\ rejected_indices = <<0>>
    /\ flagged_indices = <<1>>

\* C16: for every processed record rules_passed + rules_failed is 12, the
\* number of rules of the catalog; semantic_score is
\* rules_passed / (rules_passed + rules_failed) x 100 and lies in [0, 100].
C16_SemanticScore ==
    /\ Len(Rules) = 12
    /\ \A j \in 1..Evaluated :
           LET v == validation_results[j]
               score == v.semantic_score
           IN /\ v.rules_passed >= 0
              /\ v.rules_failed >= 0
              /\ v.rules_passed + v.rules_failed = 12
              /\ score.den > 0
              /\ score.num * (v.rules_passed + v.rules_failed)
                     = v.rules_passed * 100 * score.den
              /\ score.num >= 0
              /\ score.num <= 100 * score.den

\* a record on which two rules fail scores 10/12 of 100, the record after
\* it scores 100
C16_Witness ==
    /\ Evaluated = 2
    /\ validation_results[1].rules_failed = 2
    /\ validation_results[1].semantic_score = [num |-> 1000, den |-> 12]
    /\ validation_results[2].rules_failed = 0
    /\ validation_results[2].semantic_score = [num |-> 1200, den |-> 12]

\* the most recent decide call handled a non-empty batch without an
\* internal error
Decided ==
    ~IsNone(gate_call) /\ Len(LastPayloads) > 0 /\ LastGateStatus # "FAILED"

\* C17: for a decided batch, BatchDecision.requires_human_review is True
\* exactly when some Decision is REVIEW_REQUIRED or ESCALATE, each
\* Decision.requires_human_review is True exactly for those two actions, and
\* overall_quality_rate is safe_count / total_records x 100, within [0, 100].
C17_HumanReviewAndQualityRate ==
    Decided =>
        LET bd == Get(batch_decision)
            needs_human == {i \in 1..Len(decisions) :
                               decisions[i].action \in {"REVIEW_REQUIRED", "ESCALATE"}}
            safe == {i \in 1..Len(decisions) : decisions[i].action = "SAFE_TO_USE"}
            rate == bd.overall_quality_rate
        IN /\ bd.requires_human_review = (needs_human # {})
           /\ \A i \in 1..Len(decisions) :
                  decisions[i].requires_human_review = (i \in needs_human)
           /\ bd.safe_count = Cardinality(safe)
           /\ bd.total_records = Len(LastPayloads)
           /\ rate.den > 0
           /\ rate.num * bd.total_records = Cardinality(safe) * 100 * rate.den
           /\ rate.num >= 0
           /\ rate.num <= 100 * rate.den

\* one safe record and one escalated record: a human is needed, the rate is 50
C17_Witness ==
    /\ Decided
    /\ Len(decisions) = 2
    /\ decisions[1].action = "SAFE_TO_USE"
    /\ ~decisions[1].requires_human_review
    /\ decisions[2].action = "ESCALATE"
    /\ decisions[2].requires_human_review
    /\ Get(batch_decision).requires_human_review
    /\ Get(batch_decision).overall_quality_rate = [num |-> 100, den |-> 2]

\* C18: a decide call that ends without an internal error returns DEGRADED
\* when a record of its batch got ESCALATE and PASSED otherwise, also for an
\* empty batch, and can_continue is True either way.
C18_GateStatus ==
    (~IsNone(gate_call) /\ ~GateHitError) =>
        LET escalated == /\ Len(LastPayloads) > 0
                         /\ \E i \in 1..Len(decisions) : decisions[i].action = "ESCALATE"
        IN /\ LastGateStatus = (IF escalated THEN "DEGRADED" ELSE "PASSED")
           /\ Get(gate_result).can_continue
           /\ Len(Get(gate_result).issues) = 0

\* a batch with a record for review and an escalated record: DEGRADED, and
\* the pipeline may go on
C18_Witness ==
    /\ ~IsNone(gate_call)
    /\ ~GateHitError
    /\ Len(LastPayloads) = 2
    /\ decisions[1].action = "REVIEW_REQUIRED"
    /\ decisions[2].action = "ESCALATE"
    /\ LastGateStatus = "DEGRADED"
    /\ Get(gate_result).can_continue

\* C19: the report of a decided batch lists the first min(n, 10) of its n
\* escalated records and the first min(m, 5) of its m records for review, in
\* the order of the decisions, each with its record id and primary reason.
C19_ReportListsFirstRecords ==
    (~IsNone(report) /\ ~IsNone(batch_decision)) =>
        LET escalated == {i \in 1..Len(decisions) : decisions[i].action = "ESCALATE"}
            reviews == {i \in 1..Len(decisions) : decisions[i].action = "REVIEW_REQUIRED"}
            Min(a, b) == IF a < b THEN a ELSE b
            \* the position in decisions of the k-th member of a set of positions
            Nth(set, k) == CHOOSE i \in set : Cardinality({j \in set : j <= i}) = k
            got == Get(report)
        IN /\ Len(got.escalated) = Min(Cardinality(escalated), 10)
           /\ \A k \in 1..Len(got.escalated) :
                  got.escalated[k] = <<decisions[Nth(escalated, k)].record_id,
                                       decisions[Nth(escalated, k)].primary_reason>>
           /\ Len(got.reviews) = Min(Cardinality(reviews), 5)
           /\ \A k \in 1..Len(got.reviews) :
                  got.reviews[k] = <<decisions[Nth(reviews, k)].record_id,
                                     decisions[Nth(reviews, k)].primary_reason>>
           /\ Cardinality(escalated) = 2 =>
                  \A i \in escalated :
                      \E k \in 1..Len(got.escalated) :
                          got.escalated[k][1] = decisions[i].record_id

\* a batch with 11 escalated records and 6 for review: the report stops after
\* the tenth escalated record and the fifth record for review
C19_Witness ==
    /\ ~IsNone(report)
    /\ ~IsNone(batch_decision)
    /\ Get(batch_decision).escalate_count = 11
    /\ Get(batch_decision).review_count = 6
    /\ Len(Get(report).escalated) = 10
    /\ Get(report).escalated[10][1] = 16
    /\ Len(Get(report).reviews) = 5
    /\ Get(report).reviews[1] = <<1, Msg("Borderline quality score", DQS_BORDERLINE_THRESHOLD - 1)>>

\* the required fields an import has a column for: one of the names the
\* field is looked for under is a column name of the import, once in lower
\* case and stripped
HasColumnFor(field) ==
    \E i \in 1..Len(FIELD_MAPPINGS) :
        /\ FIELD_MAPPINGS[i].field = field
        /\ \E h \in csv_in.headers : NormalizeHeader(h) \in Range(FIELD_MAPPINGS[i].names)
RequiredMapped == {i \in 1..Len(REQUIRED_FIELDS) : HasColumnFor(REQUIRED_FIELDS[i][2])}
Converted == ~IsNone(csv_out) /\ (csv_in.kind = "csv" \/ (csv_in.kind = "flat" /\ csv_in.n_rows > 0))

\* C20: for a converted import compliance_score is (mapped required fields)
\* / 11 x 100 and missing_fields names the unmapped required fields as
\* (section, field); for every import is_standard_format is True exactly
\* when compliance_score >= 80; an import missing exactly fraud.risk_score
\* and customer.customer_id scores 81.8 and is standard, an import missing 3
\* or more required fields is not.
C20_SchemaCompliance ==
    /\ Len(REQUIRED_FIELDS) = 11
    /\ ~IsNone(csv_out) =>
           (Get(csv_out).is_standard_format = Some(TRUE))
               = (Get(csv_out).compliance_score.num >= 80 * Get(csv_out).compliance_score.den)
    /\ Converted =>
           LET meta == Get(csv_out)
               score == meta.compliance_score
               unmapped == {REQUIRED_FIELDS[i] : i \in (1..11) \ RequiredMapped}
           IN /\ score.den > 0
              /\ score.num * 11 = Cardinality(RequiredMapped) * 100 * score.den
              /\ Range(meta.missing_fields) = unmapped
              /\ Len(meta.missing_fields) = Cardinality(unmapped)
              /\ unmapped = {<<"customer", "customer_id">>, <<"fraud", "risk_score">>} =>
                     /\ RoundTenths(score) = 818
                     /\ meta.is_standard_format = Some(TRUE)
              /\ Cardinality(unmapped) >= 3 => meta.is_standard_format = Some(FALSE)

\* a flat JSON record with columns for all required fields but the customer
\* id and the risk score
C20_Witness ==
    /\ Converted
    /\ csv_in.kind = "flat"
    /\ Get(csv_out).missing_fields = <<<<"customer", "customer_id">>, <<"fraud", "risk_score">>>>
    /\ Get(csv_out).compliance_score = [num |-> 900, den |-> 11]
    /\ Get(csv_out).is_standard_format = Some(TRUE)
    /\ Len(Get(csv_out).warnings) = 0

\* the worker threads that are inside the loop of streaming_worker
Streaming == {w \in Threads : InLoop(w)}

\* C21: whatever the order of start_stream events, stop_stream events and
\* worker steps, at most one streaming worker thread is inside its
\* processing loop.
C21_AtMostOneWorkerInLoop == Cardinality(Streaming) <= 1

\* a stop_stream was handled while worker w was inside its loop, and the
\* stream has not been started again since
StopPending(w) == InLoop(w) /\ ~streaming_active /\ stream_status = "stopped"

\* the log list is as long as the model lets the stream make it
StreamSpent == Len(logs) >= MaxStreamed

\* C22: a worker that is inside its loop when stop_stream is handled
\* eventually leaves the loop and has flushed the log storage (under fair
\* scheduling of the worker threads, and unless the model's bound on the
\* stream's log stops the worker first).
C22_StoppedWorkerExits ==
    \A w \in Threads :
        StopPending(w) ~> (workers[w] = "exited" \/ StreamSpent)

\* the threads whose call of get_engine has returned
ReturnedThreads == {t \in GetThreads : getters[t].at = "done"}

C24_AlwaysReturnsAnAction ==
    ~IsNone(txn_result) =>
        LET call == Get(txn_result)
            result == call.result
            pr == call.outcome.pipeline_result
        IN /\ ~result.raises
           /\ result.action \in Actions
           /\ call.outcome.raised =>
                  /\ result.action = "ESCALATE"
                  /\ result.dqs_score = 25
                  /\ result.flags = <<Text("Pipeline error")>>
           /\ (~call.outcome.raised /\ ~IsNone(pr) /\ ~Get(pr).success) =>
                  /\ result.action = "REVIEW_REQUIRED"
                  /\ result.dqs_score = 50
                  /\ result.flags = Get(pr).errors

\* C25: after any sequence of decide calls the layer describes the batch of
\* the most recent call: the decisions and the batch summary are those of
\* its payloads, also after a decide on an empty batch or one that ended in
\* FAILED.
C25_DescribesTheLastBatch ==
    ~IsNone(gate_call) =>
        /\ Len(decisions) = Len(LastPayloads)
        /\ Len(LastPayloads) > 0 =>
               /\ ~IsNone(batch_decision)
               /\ Get(batch_decision).total_records = Len(LastPayloads)
               /\ Get(batch_decision).decisions = decisions
        /\ Len(LastPayloads) = 0 =>
               (IsNone(batch_decision) \/ Get(batch_decision).total_records = 0)
        /\ \A i \in 1..Len(decisions) : decisions[i].record_id = LastPayloads[i].record_id

\* the payload and the Decision of the one-record batch of SpecAudit
Audited == ~IsNone(gate_call) /\ Len(decisions) = 1
AuditedPayload == LastPayloads[1]
AuditedDecision == decisions[1]

\* C26: in every Decision with action SAFE_TO_USE the votes of the
\* deterministic stages (L4.1_structural, L4.2_dqs, L4.3_semantic) are all
\* PASS.
C26_SafeMeansAllPass ==
    (Audited /\ AuditedDecision.action = "SAFE_TO_USE") =>
        /\ AuditedDecision.layer_votes.L4_1_structural = "PASS"
        /\ AuditedDecision.layer_votes.L4_2_dqs = "PASS"
        /\ AuditedDecision.layer_votes.L4_3_semantic = "PASS"

\* the assessment decide finds for the audited record, if any
AuditedAssessment ==
    LookupConfidence(Get(gate_call).confidence_assessments, AuditedPayload.record_id)

\* no rule tried before the anomaly-with-uncertain-confidence rule matches
NoEarlierRule(r) ==
    /\ ~IsInvalid(r)
    /\ ~IsCriticalDqs(r)
    /\ ~IsCriticalAnomaly(r)
    /\ ~IsMultiAnomaly(r)
    /\ ~IsBorderlineDqs(r)

\* C28: a record without a ConfidenceAssessment of its record_id is decided
\* with band MEDIUM and score 50: never REVIEW_REQUIRED by the low-confidence
\* rule, and REVIEW_REQUIRED by the anomaly-with-uncertain-confidence rule
\* whenever is_anomaly is True and no earlier rule matched.
C28_NoAssessmentIsMedium ==
    (Audited /\ IsNone(AuditedAssessment)) =>
        /\ AuditedDecision.confidence_band = "MEDIUM"
        /\ AuditedDecision.layer_votes.L8_confidence = "MEDIUM"
        /\ ConfidenceScoreOf(AuditedAssessment) = 50
        /\ AuditedDecision.primary_reason # Text("Low confidence in quality assessment")
        /\ (AuditedPayload.is_anomaly /\ NoEarlierRule(AuditedPayload)) =>
               /\ AuditedDecision.action = "REVIEW_REQUIRED"
               /\ AuditedDecision.primary_reason
                      = Text("Anomaly detected with uncertain confidence")
               /\ AuditedDecision.supporting_factors[2] = Msg("Confidence", "MEDIUM")

\* an anomalous record with DQS 100 and a moderate score, decided while the
\* only assessment handed in (LOW) is that of another record
C28_Witness ==
    /\ Audited
    /\ Get(gate_call).confidence_assessments = <<Assessment(2, "LOW", 30)>>
    /\ AuditedPayload.is_anomaly
    /\ AuditedPayload.is_valid
    /\ AuditedPayload.dqs_base = 100
    /\ AuditedPayload.anomaly_score = 71
    /\ Len(AuditedPayload.anomaly_flags) = 2
    /\ AuditedDecision.action = "REVIEW_REQUIRED"
    /\ AuditedDecision.confidence_band = "MEDIUM"

\* a call of process_single_transaction returned to the worker, its run
\* having reported success
Succeeded ==
    /\ pc[2] = "done"
    /\ ~IsNone(txn_result)
    /\ ~Get(txn_result).outcome.raised
    /\ ~Get(txn_result).result.raises
    /\ Get(Get(txn_result).outcome.pipeline_result).success

C29_SimulatedSettlementPasses ==
    ~IsNone(sim_out) =>
        /\ Get(sim_out).br002.outcome = "pass"
        /\ LET st == Get(sim_out).settlement
           IN Abs(st.net - (st.gross - st.int_fee - st.gw_fee)) < 1

\* the log file holds the first entries of the list
FileIsPrefix ==
    /\ Len(log_file) <= Len(logs)
    /\ \A i \in 1..Len(log_file) : log_file[i] = logs[i]

\* C30: after any sequence of add_log, clear_logs and flush calls the log
\* file is a prefix of the list in memory and at most 9 entries behind it;
\* right after flush, after clear_logs and after every add_log that brings
\* the length to a multiple of 10 the two are equal.
C30_FileFollowsLogs ==
    /\ [](FileIsPrefix /\ Len(logs) - Len(log_file) <= SaveEvery - 1)
    /\ [][(FlushCall \/ ClearLogsCall \/ (AddLogCall /\ Len(logs') % SaveEvery = 0))
              => log_file' = logs']_vars

\* the list reached ten entries and was saved, and one more was added
C30_Witness ==
    /\ Len(logs) = SaveEvery + 1
    /\ Len(log_file) = SaveEvery
    /\ logs[1].action = "REVIEW_REQUIRED"
    /\ logs[SaveEvery].action = "ESCALATE"

====
